---- MODULE Spec2Model ----
(***************************************************************************)
(* A model of the authenticator package: the encrypted data file of        *)
(* ClientFile (data.py), the ClientData records it holds, and the CLI      *)
(* operations that load, change and save that file (cli.py).               *)
(*                                                                         *)
(* Bytes are modelled as small records so that a byte string can mix       *)
(*   [b |-> n]        a byte of known value n in 0..255,                   *)
(*   [c |-> s]        a character of JSON punctuation,                     *)
(*   [k |-> f, v |-> x]  one "key: value" member of a JSON object,         *)
(*   [x |-> "junk"]   a byte produced by decrypting with the wrong key or  *)
(*                    chain, whose value the model does not know.          *)
(* AES-256-CBC is modelled symbolically, block by block: a cipher block    *)
(* records the key, the plaintext block and the block it was chained to,   *)
(* and decrypts to its plaintext only under that key and that chaining.    *)
(* SHA-256 key stretching is modelled as an injective function of the      *)
(* passphrase.                                                             *)
(***************************************************************************)
EXTENDS Integers, Sequences, FiniteSets, TLC

VARIABLES
    file,     \* the data file on disk: [exists, blocks]
    cf,       \* a ClientFile object used directly: [made, key, iv]
    cli,      \* the CLI object of the current command invocation
    out,      \* what the current command invocation has printed
    procs,    \* processes that are inside ClientFile.save()
    inp,      \* the arguments of a function that is called on its own; the
              \* lines typed on stdin while the command is executed
    result,   \* the outcome of the last call: [op, exc, ...]
    libcPads  \* whether the C library's strftime zero-pads "%Y"

vars == <<file, cf, cli, out, procs, inp, result, libcPads>>

-----------------------------------------------------------------------------
(* Bounds of the model *)

MaxRecords == 2      \* longest list handed to save() directly
MaxLines == 3        \* most lines typed at one prompt loop
MaxEntries == 4      \* most passphrases typed to create_data_file
MaxCount == 2        \* counters are not incremented beyond this value
MaxPasses == 2       \* refresh passes of generate before it is interrupted
MaxStore == 2        \* most records the CLI puts in one data file

-----------------------------------------------------------------------------
(* Python helpers *)

Min(a, b) == IF a < b THEN a ELSE b
Max(a, b) == IF a > b THEN a ELSE b

\* s[:n] for n >= 0
PyTake(s, n) == SubSeq(s, 1, Min(n, Len(s)))

\* s[n:] for n >= 0
PyFrom(s, n) == SubSeq(s, n + 1, Len(s))

\* s[:-n] for n >= 0; s[:-0] is s[:0], the empty string
PyDropLast(s, n) == IF n = 0 THEN << >> ELSE SubSeq(s, 1, Max(Len(s) - n, 0))

B(n) == [b |-> n]
Ch(s) == [c |-> s]
JunkByte == [x |-> "junk"]
IsNum(e) == DOMAIN e = {"b"}

Repeat(e, n) == [i \in 1..n |-> e]

RECURSIVE Concat(_)
Concat(ss) == IF ss = << >> THEN << >> ELSE Head(ss) \o Concat(Tail(ss))

\* struct.pack("!I", n)
Pack32(n) ==
    << B((n \div 16777216) % 256), B((n \div 65536) % 256),
       B((n \div 256) % 256), B(n % 256) >>

\* struct.unpack("!I", bs)[0]; bytes of unknown value give -1, a value that
\* is none of the header constants
Unpack32(bs) ==
    IF \A i \in 1..4 : IsNum(bs[i])
    THEN bs[1].b * 16777216 + bs[2].b * 65536 + bs[3].b * 256 + bs[4].b
    ELSE -1

-----------------------------------------------------------------------------
(* ClientFile: constants, key, cipher *)

BlockSize == 16
KeyStretches == 262144
MagicNumber == 2053790282      \* 0x7A6A5A4A
FileVersion == 1

\* ClientFile._produce_key
ProduceKey(passphrase) == [sha256 |-> passphrase, stretches |-> KeyStretches]

\* ClientFile._produce_iv
ProduceIv(key) == [window |-> key]

\* ClientFile.__init__
NewClientFile(passphrase) ==
    [made |-> TRUE, key |-> ProduceKey(passphrase),
     iv |-> ProduceIv(ProduceKey(passphrase))]

NoClientFile == [made |-> FALSE]

\* sixteen bytes holding four big-endian 32-bit fields
Header4(f1, f2, f3, f4) == Pack32(f1) \o Pack32(f2) \o Pack32(f3) \o Pack32(f4)

\* the header that save() builds
BuildHeader(magic, version, stretches) ==
    Header4(magic, version, stretches, magic)

FileHeader == BuildHeader(MagicNumber, FileVersion, KeyStretches)

\* the padding step of ClientFile._encrypt
PadLength(b) == BlockSize - (Len(b) % BlockSize)

\* the padding step, were it to add nothing to a whole number of blocks
PadWhenNeeded(b) ==
    b \o Repeat(B(PadLength(b) % BlockSize), PadLength(b) % BlockSize)

\* the padding step, were it to fill the last block with zero bytes
PadWithZeros(b) == b \o Repeat(B(0), PadLength(b))

Pad(b) == b \o Repeat(B(PadLength(b)), PadLength(b))

IsCipher(blk) == DOMAIN blk = {"key", "prev", "pt"}
IsRaw(blk) == DOMAIN blk = {"raw"}

\* CBC encryption of a padded byte string, one block after the other
RECURSIVE CbcEncrypt(_, _, _)
CbcEncrypt(key, prev, padded) ==
    IF Len(padded) = 0 THEN << >>
    ELSE LET blk == [key |-> key, prev |-> prev,
                     pt |-> SubSeq(padded, 1, BlockSize)]
         IN  <<blk>> \o CbcEncrypt(key, blk, PyFrom(padded, BlockSize))

\* ClientFile._encrypt
Encrypt(key, iv, b) == CbcEncrypt(key, [iv |-> iv], Pad(b))

\* what a block decrypts to when the key or the chaining is not the one it
\* was encrypted with: bytes of unknown value, the last of which is n
JunkBlock(n) == Repeat(JunkByte, BlockSize - 1) \o <<B(n)>>

\* CBC decryption of block j of blocks
CbcDecryptBlock(key, iv, blocks, j, n) ==
    LET blk == blocks[j]
        prev == IF j = 1 THEN [iv |-> iv] ELSE blocks[j - 1]
    IN  IF IsCipher(blk) /\ blk.key = key /\ blk.prev = prev
        THEN blk.pt
        ELSE JunkBlock(n)

\* the value of a byte of JSON text, when a file ends in the middle of its
\* text: that of a newline, 10, or more, and less than 128
TextByte(n) == 10 + (n % 118)

\* ClientFile._decrypt; n is the value the last byte takes when the last
\* block does not decrypt to what was encrypted
Decrypt(key, iv, blocks, strip_padding, n) ==
    LET res == Concat([j \in 1..Len(blocks) |->
                          CbcDecryptBlock(key, iv, blocks, j, n)])
    IN  IF ~strip_padding THEN [exc |-> "none", value |-> res]
        ELSE IF Len(res) = 0 THEN [exc |-> "IndexError", value |-> << >>]
        ELSE IF IsNum(res[Len(res)])
        THEN [exc |-> "none", value |-> PyDropLast(res, res[Len(res)].b)]
        ELSE [exc |-> "none", value |-> PyDropLast(res, TextByte(n))]

\* _validate_header with its two checks in the other order
ValidateHeaderEqualityFirst(cleartext_header, decrypted_header) ==
    IF Len(PyTake(decrypted_header, 4)) # 4 THEN "struct.error"
    ELSE IF Len(PyFrom(decrypted_header, 12)) # 4 THEN "struct.error"
    ELSE IF cleartext_header # decrypted_header THEN "FileCorruptionError"
    ELSE IF MagicNumber # Unpack32(PyTake(decrypted_header, 4))
            \/ MagicNumber # Unpack32(PyFrom(decrypted_header, 12))
         THEN "DecryptionError"
    ELSE "ok"

\* ClientFile._validate_header
ValidateHeader(cleartext_header, decrypted_header) ==
    IF Len(PyTake(decrypted_header, 4)) # 4 THEN "struct.error"
    ELSE IF Len(PyFrom(decrypted_header, 12)) # 4 THEN "struct.error"
    ELSE LET magic_number1 == Unpack32(PyTake(decrypted_header, 4))
             magic_number2 == Unpack32(PyFrom(decrypted_header, 12))
         IN  IF MagicNumber # magic_number1 \/ MagicNumber # magic_number2
             THEN "DecryptionError"
             ELSE IF cleartext_header # decrypted_header
                  THEN "FileCorruptionError"
                  ELSE "ok"

-----------------------------------------------------------------------------
(* ClientData *)

\* A str is a sequence of characters; a time string is the digits of its
\* year followed by the rest of the "%Y%m%dT%H%M%S%z" text, kept as one token;
\* a datetime is [year, rest].

RECURSIVE Digits(_)
Digits(n) == IF n < 10 THEN <<n>> ELSE Digits(n \div 10) \o <<n % 10>>

RECURSIVE DigitsValue(_)
DigitsValue(ds) ==
    IF ds = << >> THEN 0
    ELSE 10 * DigitsValue(SubSeq(ds, 1, Len(ds) - 1)) + ds[Len(ds)]

\* datetime.strftime("%Y%m%dT%H%M%S%z"): "%Y" is zero-padded to four digits
\* by some C libraries and left unpadded by others
Strftime(t, pads) ==
    [y |-> IF pads /\ Len(Digits(t.year)) < 4
           THEN Repeat(0, 4 - Len(Digits(t.year))) \o Digits(t.year)
           ELSE Digits(t.year),
     rest |-> t.rest]

\* the zero padding that ClientData adds when the year does not start with 0
PadYear(t, s) ==
    LET tpadding == IF 10 > t.year THEN <<0, 0, 0>>
                    ELSE IF 100 > t.year THEN <<0, 0>>
                    ELSE IF 1000 > t.year THEN <<0>>
                    ELSE << >>
    IN  IF s.y[1] # 0 THEN [s EXCEPT !.y = tpadding \o s.y] ELSE s

\* iso8601.parse_date: the year is the first four digits
ParseDate(s) ==
    IF Len(s.y) = 4
    THEN [exc |-> "none", value |-> [year |-> DigitsValue(s.y), rest |-> s.rest]]
    ELSE [exc |-> "ParseError"]

\* datetime(1, 1, 1, 0, 0, 0, 0, utz)
MinTime == [year |-> 1, rest |-> "0101T000000+0000"]

\* the default of ClientData._init_last_count_update_time
DefaultUpdateTime(pads) ==
    LET s == Strftime(MinTime, pads)
    IN  IF PyTake(s.y, 3) # <<0, 0, 0>>
        THEN [s EXCEPT !.y = <<0, 0, 0>> \o s.y]
        ELSE s

Has(kw, key) == key \in DOMAIN kw

IsBytes(secret) == DOMAIN secret = {"bytes"}
SecretLen(secret) == IF IsBytes(secret) THEN Len(secret.bytes) ELSE Len(secret.str)

Raise(e) == [exc |-> e]
Return(v) == [exc |-> "none", value |-> v]

\* ClientData.__init__ with a period check that lets 0 through
ClientDataInitPeriodZero(kw, pads) ==
    IF ~Has(kw, "clientId") THEN Raise("ValueError")
    ELSE IF 0 = Len(kw.clientId) THEN Raise("ValueError")
    ELSE IF ~Has(kw, "sharedSecret") THEN Raise("ValueError")
    ELSE IF 0 = SecretLen(kw.sharedSecret) THEN Raise("ValueError")
    ELSE IF Has(kw, "lastCount") /\ 0 > kw.lastCount THEN Raise("ValueError")
    ELSE IF Has(kw, "lastCountUpdateTime")
            /\ ParseDate(kw.lastCountUpdateTime).exc # "none"
         THEN Raise("ParseError")
    ELSE IF Has(kw, "period") /\ 0 > kw.period THEN Raise("ValueError")
    ELSE IF Has(kw, "passwordLength")
            /\ (1 > kw.passwordLength \/ 10 < kw.passwordLength)
         THEN Raise("ValueError")
    ELSE Return(
        [client_id |-> kw.clientId,
         shared_secret |-> kw.sharedSecret,
         counter_from_time |->
            IF Has(kw, "counterFromTime") THEN kw.counterFromTime ELSE TRUE,
         last_count |-> IF Has(kw, "lastCount") THEN kw.lastCount ELSE 0,
         last_count_update_time |->
            IF Has(kw, "lastCountUpdateTime")
            THEN LET t == ParseDate(kw.lastCountUpdateTime).value
                 IN  PadYear(t, Strftime(t, pads))
            ELSE DefaultUpdateTime(pads),
         period |-> IF Has(kw, "period") THEN kw.period ELSE 30,
         password_length |->
            IF Has(kw, "passwordLength") THEN kw.passwordLength ELSE 6,
         tags |-> IF Has(kw, "tags")
                  THEN SelectSeq(kw.tags, LAMBDA tag : 0 < Len(tag))
                  ELSE << >>,
         note |-> IF Has(kw, "note") THEN kw.note ELSE << >>])

\* ClientData.__init__ and its _init_* methods
ClientDataInit(kw, pads) ==
    IF ~Has(kw, "clientId") THEN Raise("ValueError")
    ELSE IF 0 = Len(kw.clientId) THEN Raise("ValueError")
    ELSE IF ~Has(kw, "sharedSecret") THEN Raise("ValueError")
    ELSE IF 0 = SecretLen(kw.sharedSecret) THEN Raise("ValueError")
    ELSE IF Has(kw, "lastCount") /\ 0 > kw.lastCount THEN Raise("ValueError")
    ELSE IF Has(kw, "lastCountUpdateTime")
            /\ ParseDate(kw.lastCountUpdateTime).exc # "none"
         THEN Raise("ParseError")
    ELSE IF Has(kw, "period") /\ 0 >= kw.period THEN Raise("ValueError")
    ELSE IF Has(kw, "passwordLength")
            /\ (1 > kw.passwordLength \/ 10 < kw.passwordLength)
         THEN Raise("ValueError")
    ELSE Return(
        [client_id |-> kw.clientId,
         shared_secret |-> kw.sharedSecret,
         counter_from_time |->
            IF Has(kw, "counterFromTime") THEN kw.counterFromTime ELSE TRUE,
         last_count |-> IF Has(kw, "lastCount") THEN kw.lastCount ELSE 0,
         last_count_update_time |->
            IF Has(kw, "lastCountUpdateTime")
            THEN LET t == ParseDate(kw.lastCountUpdateTime).value
                 IN  PadYear(t, Strftime(t, pads))
            ELSE DefaultUpdateTime(pads),
         period |-> IF Has(kw, "period") THEN kw.period ELSE 30,
         password_length |->
            IF Has(kw, "passwordLength") THEN kw.passwordLength ELSE 6,
         tags |-> IF Has(kw, "tags")
                  THEN SelectSeq(kw.tags, LAMBDA tag : 0 < Len(tag))
                  ELSE << >>,
         note |-> IF Has(kw, "note") THEN kw.note ELSE << >>])

\* ClientData.set_last_count_update_time
SetLastCountUpdateTime(cd, update_time, pads) ==
    IF DOMAIN update_time = {"year", "rest"}
    THEN [cd EXCEPT !.last_count_update_time =
                        PadYear(update_time, Strftime(update_time, pads))]
    ELSE [cd EXCEPT !.last_count_update_time = update_time]

\* ClientData.incremented_count: the object after the call
IncrementedCount(cd, now, pads) ==
    SetLastCountUpdateTime(
        [cd EXCEPT !.last_count = cd.last_count + 1], now, pads)

\* ClientData.to_dict
ToDict(cd) ==
    [clientId |-> cd.client_id,
     sharedSecret |-> cd.shared_secret,
     counterFromTime |-> cd.counter_from_time,
     lastCount |-> cd.last_count,
     lastCountUpdateTime |-> cd.last_count_update_time,
     period |-> cd.period,
     passwordLength |-> cd.password_length,
     tags |-> cd.tags,
     note |-> cd.note]

-----------------------------------------------------------------------------
(* JSON text, token by token *)

SortedKeys ==
    << "clientId", "counterFromTime", "lastCount", "lastCountUpdateTime",
       "note", "passwordLength", "period", "sharedSecret", "tags" >>

\* one object of json.dumps(..., sort_keys=True)
DumpObject(d) ==
    <<Ch("{")>> \o [i \in 1..Len(SortedKeys) |->
                       [k |-> SortedKeys[i], v |-> d[SortedKeys[i]]]]
                \o <<Ch("}")>>

RECURSIVE DumpItems(_)
DumpItems(cds) ==
    IF Len(cds) = 0 THEN << >>
    ELSE IF Len(cds) = 1 THEN DumpObject(ToDict(cds[1]))
    ELSE DumpObject(ToDict(cds[1])) \o <<Ch(",")>> \o DumpItems(Tail(cds))

\* json.dumps(client_data_list, cls=ClientDataEncoder): a bytes value is not
\* JSON serializable
JsonDumps(cds) ==
    IF \E i \in 1..Len(cds) : IsBytes(cds[i].shared_secret)
    THEN Raise("TypeError")
    ELSE Return(<<Ch("[")>> \o DumpItems(cds) \o <<Ch("]")>>)

IsMember(e) == DOMAIN e = {"k", "v"}
IsText(e) == DOMAIN e = {"c"} \/ IsMember(e)

\* the object whose members are the tokens text[from..to]
MembersToDict(text, from, to) ==
    [key \in {text[i].k : i \in from..to} |->
        text[CHOOSE i \in from..to :
                /\ text[i].k = key
                /\ \A j \in (i + 1)..to : text[j].k # key].v]

\* the position of the "}" that closes the object opened at pos, 0 if none
ObjectEnd(text, pos) ==
    IF \E e \in (pos + 1)..Len(text) :
          /\ text[e] = Ch("}")
          /\ \A i \in (pos + 1)..(e - 1) : IsMember(text[i])
    THEN CHOOSE e \in (pos + 1)..Len(text) :
          /\ text[e] = Ch("}")
          /\ \A i \in (pos + 1)..(e - 1) : IsMember(text[i])
    ELSE 0

\* ClientDataDecoder._object_decode
ObjectDecode(d, pads) ==
    IF "clientId" \in DOMAIN d THEN ClientDataInit(d, pads) ELSE Return(d)

\* the items of a JSON array from position pos on, pos being the start of an
\* object; acc holds the items decoded so far
RECURSIVE LoadItems(_, _, _, _)
LoadItems(text, pos, acc, pads) ==
    IF pos > Len(text) \/ text[pos] # Ch("{") THEN Raise("ValueError")
    ELSE LET e == ObjectEnd(text, pos)
         IN  IF e = 0 THEN Raise("ValueError")
             ELSE LET o == ObjectDecode(
                               MembersToDict(text, pos + 1, e - 1), pads)
                  IN  IF o.exc # "none" THEN o
                      ELSE IF e + 1 > Len(text) THEN Raise("ValueError")
                      ELSE IF text[e + 1] = Ch("]")
                           THEN IF e + 1 = Len(text)
                                THEN Return(Append(acc, o.value))
                                ELSE Raise("ValueError")
                      ELSE IF text[e + 1] = Ch(",")
                           THEN LoadItems(text, e + 2,
                                          Append(acc, o.value), pads)
                      ELSE Raise("ValueError")

\* str(data, 'utf-8') and json.loads(plain_text, cls=ClientDataDecoder);
\* UnicodeDecodeError and JSONDecodeError are both ValueError
JsonLoads(text, pads) ==
    IF \E i \in 1..Len(text) : ~IsText(text[i]) THEN Raise("ValueError")
    ELSE IF Len(text) = 0 THEN Raise("ValueError")
    ELSE IF text[1] # Ch("[") THEN Raise("ValueError")
    ELSE IF Len(text) >= 2 /\ text[2] = Ch("]")
         THEN IF Len(text) = 2 THEN Return(<< >>) ELSE Raise("ValueError")
    ELSE LoadItems(text, 2, << >>, pads)

-----------------------------------------------------------------------------
(* ClientFile: load, save, validate *)

NoFile == [exists |-> FALSE, blocks |-> << >>]

NoPassphrase == [given |-> FALSE]
Passphrase(pp) == [given |-> TRUE, pp |-> pp]

\* f.read(16) at the start of the file
ReadHeader(blocks) ==
    IF Len(blocks) = 0 THEN << >>
    ELSE IF IsRaw(blocks[1]) THEN blocks[1].raw
    ELSE Repeat(JunkByte, BlockSize)

\* ClientFile.load
Load(cfo, f, n, padsYear) ==
    IF ~f.exists THEN Raise("FileNotFoundError")
    ELSE LET header == ReadHeader(f.blocks)
             cypher_text == PyFrom(f.blocks, 1)
             data == Decrypt(cfo.key, cfo.iv, cypher_text, TRUE, n)
         IN  IF data.exc # "none" THEN Raise(data.exc)
             ELSE LET decrypted_header == PyTake(data.value, 16)
                      v == ValidateHeader(header, decrypted_header)
                  IN  IF v # "ok" THEN Raise(v)
                      ELSE JsonLoads(PyFrom(data.value, 16), padsYear)

\* what save() writes: the header, then the cypher text
SaveOutput(key, iv, plain_text) ==
    <<[raw |-> FileHeader]>> \o Encrypt(key, iv, FileHeader \o plain_text)

\* ClientFile.save encrypting under the key the object already has
SaveUnderOldKey(cfo, f, client_data_list, new_passphrase) ==
    LET plain_text == JsonDumps(client_data_list)
        key == IF new_passphrase.given
               THEN ProduceKey(new_passphrase.pp) ELSE cfo.key
        iv == IF new_passphrase.given THEN ProduceIv(key) ELSE cfo.iv
    IN  IF plain_text.exc # "none"
        THEN [exc |-> plain_text.exc, cf |-> cfo, file |-> f]
        ELSE [exc |-> "none",
              cf |-> [cfo EXCEPT !.key = key, !.iv = iv],
              file |-> [exists |-> TRUE,
                        blocks |-> SaveOutput(cfo.key, cfo.iv,
                                              plain_text.value)]]

\* ClientFile.save: the exception, the object and the file after the call
Save(cfo, f, client_data_list, new_passphrase) ==
    LET plain_text == JsonDumps(client_data_list)
        key == IF new_passphrase.given
               THEN ProduceKey(new_passphrase.pp) ELSE cfo.key
        iv == IF new_passphrase.given THEN ProduceIv(key) ELSE cfo.iv
    IN  IF plain_text.exc # "none"
        THEN [exc |-> plain_text.exc, cf |-> cfo, file |-> f]
        ELSE [exc |-> "none",
              cf |-> [cfo EXCEPT !.key = key, !.iv = iv],
              file |-> [exists |-> TRUE,
                        blocks |-> SaveOutput(key, iv, plain_text.value)]]

\* validate() decrypting the way load() does, with the padding removed
ValidateStripping(cfo, f, n) ==
    IF ~f.exists THEN Raise("FileNotFoundError")
    ELSE LET header_bytes == ReadHeader(f.blocks)
             cypher_bytes == SubSeq(f.blocks, 2, Min(2, Len(f.blocks)))
             data == Decrypt(cfo.key, cfo.iv, cypher_bytes, TRUE, n)
             v == ValidateHeader(header_bytes, data.value)
         IN  IF v = "DecryptionError" THEN Return(FALSE)
             ELSE IF v = "ok" THEN Return(TRUE)
             ELSE Raise(v)

\* ClientFile.validate
Validate(cfo, f, n) ==
    IF ~f.exists THEN Raise("FileNotFoundError")
    ELSE LET header_bytes == ReadHeader(f.blocks)
             cypher_bytes == SubSeq(f.blocks, 2, Min(2, Len(f.blocks)))
             data == Decrypt(cfo.key, cfo.iv, cypher_bytes, FALSE, n)
             v == ValidateHeader(header_bytes, data.value)
         IN  IF v = "DecryptionError" THEN Return(FALSE)
             ELSE IF v = "ok" THEN Return(TRUE)
             ELSE Raise(v)

-----------------------------------------------------------------------------
(* Values the calls are tried with *)

Passphrases == {"p1", "p2"}

\* the value of the last byte of a block that decrypts to junk: 0, a pad
\* length, and values larger than a pad length
JunkBytes == {0, 1, 16, 17, 29, 255}

Str(s) == [str |-> s]
Bytes(s) == [bytes |-> s]

IdA == <<"a">>
IdB == <<"b">>
IdAB == <<"a", "b">>
SecretText == Str(<<"G", "E", "Z", "D">>)
SecretBytes == Bytes(<<49, 50, 51, 52>>)
Time2013 == [y |-> <<2, 0, 1, 3>>, rest |-> "0704T131415-0500"]

\* keyword arguments that ClientData is constructed with
SampleKwArgs ==
    << [clientId |-> IdA, sharedSecret |-> SecretText,
        passwordLength |-> 8, period |-> 15, tags |-> << <<"t">> >>],
       [clientId |-> IdB, sharedSecret |-> SecretText,
        counterFromTime |-> FALSE, lastCount |-> 1,
        lastCountUpdateTime |-> Time2013,
        note |-> <<"n">>, tags |-> << <<"t">>, << >> >>],
       [clientId |-> IdAB, sharedSecret |-> SecretBytes] >>

\* the lists of ClientData objects built from these, as lists of indexes
SampleLists ==
    UNION {[1..n -> 1..Len(SampleKwArgs)] : n \in 0..MaxRecords}

MakeList(ixs, padsYear) ==
    [i \in 1..Len(ixs) |-> ClientDataInit(SampleKwArgs[ixs[i]], padsYear).value]

-----------------------------------------------------------------------------
(* The ClientFile object used directly: construct, save, load, validate *)

NoResult == [op |-> "none", exc |-> "none"]
IdleCli == [pc |-> "none"]

FileInit ==
    /\ file = NoFile
    /\ cf = NoClientFile
    /\ cli = IdleCli
    /\ out = << >>
    /\ procs = << >>
    /\ inp = << >>
    /\ result = NoResult
    /\ libcPads \in BOOLEAN

\* cf = ClientFile(pp)
Construct ==
    \E pp \in Passphrases :
        /\ cf' = NewClientFile(pp)
        /\ UNCHANGED <<file, cli, out, procs, inp, result, libcPads>>

\* cf.save(filepath, cds) and cf.save(filepath, cds, new_passphrase); the
\* outcome keeps the list and the new passphrase the call was made with, and
\* the key of the object after it
SaveCall ==
    /\ cf.made
    /\ \E ixs \in SampleLists,
          np \in {NoPassphrase} \cup {Passphrase(pp) : pp \in Passphrases} :
        LET cds == MakeList(ixs, libcPads)
            Called(r) ==
                /\ cf' = r.cf
                /\ file' = r.file
                /\ result' = [op |-> "save", exc |-> r.exc, saved |-> cds,
                              key |-> r.cf.key, new_passphrase |-> np]
        IN  Called(Save(cf, file, cds, np))
    /\ UNCHANGED <<cli, out, procs, inp, libcPads>>

\* cf.load(filepath)
LoadCall ==
    /\ cf.made
    /\ \E n \in JunkBytes :
        LET r == Load(cf, file, n, libcPads)
        IN  result' = [op |-> "load", exc |-> r.exc,
                       records |-> IF r.exc = "none" THEN r.value ELSE << >>]
    /\ UNCHANGED <<file, cf, cli, out, procs, inp, libcPads>>

\* cf.validate(filepath)
ValidateCall ==
    /\ cf.made
    /\ \E n \in JunkBytes :
        LET r == Validate(cf, file, n)
        IN  result' = [op |-> "validate", exc |-> r.exc,
                       valid |-> IF r.exc = "none" THEN r.value ELSE FALSE]
    /\ UNCHANGED <<file, cf, cli, out, procs, inp, libcPads>>

FileNext == Construct \/ SaveCall \/ LoadCall \/ ValidateCall

SpecFile == FileInit /\ [][FileNext]_vars

\* the key a complete file was encrypted with
FileKey(f) == f.blocks[2].key

\* the passphrase a key was stretched from
PassphraseOf(key) == key.sha256

\* C1: for every valid list of client records and every passphrase, a load
\* that follows save(path, records), made under a key derived from the same
\* passphrase, returns a list equal to records, field for field and in the
\* same order.
C1_SaveThenLoadReturnsRecords ==
    [][(LoadCall /\ result.op = "save" /\ cf.key = result.key)
          => (result'.exc = "none" /\ result'.records = result.saved)]_vars

\* C2: validate(path) returns False when the ClientFile was built from a
\* passphrase other than the one the file was saved with, and True when it
\* was built from the same passphrase.
C2_ValidateTellsPassphrase ==
    [][(ValidateCall /\ file.exists)
          => /\ result'.exc = "none"
             /\ result'.valid =
                  (PassphraseOf(cf.key) = PassphraseOf(FileKey(file)))]_vars

\* a validate() that has returned False for a file saved under another
\* passphrase
C2_Witness ==
    /\ result.op = "validate" /\ result.exc = "none" /\ result.valid = FALSE
    /\ file.exists /\ cf.made
    /\ PassphraseOf(cf.key) # PassphraseOf(FileKey(file))

\* C8: load of a file that was saved under a different passphrase always
\* fails with DecryptionError, never with another kind of error and never by
\* returning records.
C8_WrongPassphraseLoadIsDecryptionError ==
    [][(LoadCall /\ file.exists
            /\ PassphraseOf(cf.key) # PassphraseOf(FileKey(file)))
          => result'.exc = "DecryptionError"]_vars

\* the store instance's key and IV are those derived from the new
\* passphrase, and the written file validates under it and loads the
\* records that were saved
UnderNewPassphrase(np, cfo, f, records, pads) ==
    /\ cfo.key = ProduceKey(np.pp)
    /\ cfo.iv = ProduceIv(ProduceKey(np.pp))
    /\ \A n \in JunkBytes : Validate(cfo, f, n) = Return(TRUE)
    /\ Load(cfo, f, 0, pads) = Return(records)

\* a step of SaveCall that has changed the passphrase: it leaves the outcome
\* of a save with a new passphrase and the object the save was called on
SavedWithNewPassphrase ==
    /\ result'.op = "save" /\ result'.exc = "none"
    /\ result'.new_passphrase.given
    /\ cf'.key = result'.key
    /\ cf.made

-----------------------------------------------------------------------------
(* _validate_header called on its own *)

Magics == {MagicNumber, 0}

HeaderSamples ==
    {Header4(m1, v, KeyStretches, m2) : m1 \in Magics, m2 \in Magics,
                                        v \in {FileVersion, 2}}

DecryptedSamples ==
    HeaderSamples \cup {JunkBlock(0), PyTake(FileHeader, 12)}

HeaderInit ==
    /\ file = NoFile
    /\ cf = NoClientFile
    /\ cli = IdleCli
    /\ out = << >>
    /\ procs = << >>
    /\ inp \in [cleartext_header : HeaderSamples,
                decrypted_header : DecryptedSamples]
    /\ result = NoResult
    /\ libcPads = FALSE

CallValidateHeader ==
    /\ result.op = "none"
    /\ result' = [op |-> "_validate_header",
                  exc |-> ValidateHeader(inp.cleartext_header,
                                         inp.decrypted_header)]
    /\ UNCHANGED <<file, cf, cli, out, procs, inp, libcPads>>

HeaderNext == CallValidateHeader

SpecHeader == HeaderInit /\ [][HeaderNext]_vars

\* the first and the last field of a sixteen-byte header
Magic1(h) == Unpack32(SubSeq(h, 1, 4))
Magic2(h) == Unpack32(SubSeq(h, 13, 16))

\* C5: _validate_header raises DecryptionError whenever either magic field
\* of the decrypted header differs from the magic constant, and raises
\* FileCorruptionError only when both magic fields match but the cleartext
\* header differs from the decrypted header: the magic check is decided
\* before the equality check.
C5_MagicBeforeEquality ==
    result.op = "_validate_header" =>
        LET ch == inp.cleartext_header
            dh == inp.decrypted_header
        IN  /\ (Len(dh) = 16
                  /\ (Magic1(dh) # MagicNumber \/ Magic2(dh) # MagicNumber))
                => result.exc = "DecryptionError"
            /\ result.exc = "FileCorruptionError"
                => /\ Len(dh) = 16
                   /\ Magic1(dh) = MagicNumber /\ Magic2(dh) = MagicNumber
                   /\ ch # dh

\* a decrypted header with one wrong magic field that also differs from the
\* cleartext header has been rejected
C5_Witness ==
    /\ result.op = "_validate_header"
    /\ result.exc = "DecryptionError"
    /\ Magic1(inp.decrypted_header) = MagicNumber
    /\ inp.cleartext_header # inp.decrypted_header

-----------------------------------------------------------------------------
(* CLI: helpers *)

\* the regular expression that CLI._escape_for_re builds from a wildcard
\* string, kept as the wildcard string it anchors: "*" stands for ".*", and
\* an empty string gives "^.*$"
EscapeForRe(clear_text) ==
    IF 0 = Len(clear_text) THEN <<"*">> ELSE clear_text

\* re.compile(expression).match(s) is not None
RECURSIVE ReMatch(_, _)
ReMatch(expression, s) ==
    IF expression = << >> THEN s = << >>
    ELSE IF Head(expression) = "*"
         THEN \/ ReMatch(Tail(expression), s)
              \/ (s # << >> /\ ReMatch(expression, Tail(s)))
    ELSE /\ s # << >>
         /\ Head(s) = Head(expression)
         /\ ReMatch(Tail(expression), Tail(s))

HasStar(pattern) == \E i \in 1..Len(pattern) : pattern[i] = "*"

\* CLI._match_clientid
MatchClientId(cd, pattern) ==
    IF pattern = <<"*">> THEN TRUE
    ELSE IF ~HasStar(pattern)
         THEN ReMatch(EscapeForRe(<<"*">> \o pattern \o <<"*">>), cd.client_id)
         ELSE ReMatch(EscapeForRe(pattern), cd.client_id)

\* stdin.readline().strip(): the next line, and "" at the end of the input
ReadLine(lines) == IF lines = << >> THEN "" ELSE Head(lines)
RestLines(lines) == IF lines = << >> THEN << >> ELSE Tail(lines)

\* CLI._query_prompt with possible values ('yes', 'no'): the answer, the
\* lines left and the number of times the prompt was printed
RECURSIVE QueryPrompt(_, _, _)
QueryPrompt(lines, default_value, asked) ==
    LET r == IF ReadLine(lines) = "" THEN default_value ELSE ReadLine(lines)
    IN  IF r \in {"yes", "no"}
        THEN [answer |-> r, rest |-> RestLines(lines), asked |-> asked + 1]
        ELSE QueryPrompt(RestLines(lines), default_value, asked + 1)

\* _capture_passphrase, were it to take the first entry whatever the second
CapturePassphraseUnconfirmed(lines, printed) ==
    LET pp1 == ReadLine(lines)
        pp2 == ReadLine(RestLines(lines))
    IN  IF pp1 = ""
        THEN [abandon |-> TRUE, passphrase |-> NoPassphrase,
              rest |-> RestLines(lines),
              out |-> Append(printed, "Enter passphrase: ")]
        ELSE IF pp2 = ""
        THEN [abandon |-> TRUE, passphrase |-> NoPassphrase,
              rest |-> RestLines(RestLines(lines)),
              out |-> printed \o <<"Enter passphrase: ",
                                   "Confirm passphrase: ">>]
        ELSE [abandon |-> FALSE, passphrase |-> Passphrase(pp1),
              rest |-> RestLines(RestLines(lines)),
              out |-> printed \o <<"Enter passphrase: ",
                                   "Confirm passphrase: ">>]

\* CLI._capture_passphrase: the passphrase captured (none when abandoned),
\* the lines left and what was printed
RECURSIVE CapturePassphrase(_, _)
CapturePassphrase(lines, printed) ==
    LET pp1 == ReadLine(lines)
        pp2 == ReadLine(RestLines(lines))
    IN  IF pp1 = ""
        THEN [abandon |-> TRUE, passphrase |-> NoPassphrase,
              rest |-> RestLines(lines),
              out |-> Append(printed, "Enter passphrase: ")]
        ELSE IF pp2 = ""
        THEN [abandon |-> TRUE, passphrase |-> NoPassphrase,
              rest |-> RestLines(RestLines(lines)),
              out |-> printed \o <<"Enter passphrase: ",
                                   "Confirm passphrase: ">>]
        ELSE IF pp1 # pp2
        THEN CapturePassphrase(
                 RestLines(RestLines(lines)),
                 printed \o <<"Enter passphrase: ", "Confirm passphrase: ",
                              "Passphrases do not match. Try again.">>)
        ELSE [abandon |-> FALSE, passphrase |-> Passphrase(pp1),
              rest |-> RestLines(RestLines(lines)),
              out |-> printed \o <<"Enter passphrase: ",
                                   "Confirm passphrase: ">>]

\* _query_passphrase, were it to take the passphrase without validating it
QueryPassphraseUnvalidated(lines, f, n, printed) ==
    LET pp == ReadLine(lines)
    IN  IF pp = ""
        THEN [exc |-> "none", abandon |-> TRUE, passphrase |-> NoPassphrase,
              cf |-> NoClientFile, rest |-> RestLines(lines),
              out |-> Append(printed, "Enter passphrase: ")]
        ELSE [exc |-> "none", abandon |-> FALSE,
              passphrase |-> Passphrase(pp), cf |-> NewClientFile(pp),
              rest |-> RestLines(lines),
              out |-> Append(printed, "Enter passphrase: ")]

\* CLI._query_passphrase: the ClientFile whose passphrase validated (none
\* when abandoned), the lines left and what was printed; n as in Decrypt
RECURSIVE QueryPassphrase(_, _, _, _)
QueryPassphrase(lines, f, n, printed) ==
    LET pp == ReadLine(lines)
        v == Validate(NewClientFile(pp), f, n)
    IN  IF pp = ""
        THEN [exc |-> "none", abandon |-> TRUE, passphrase |-> NoPassphrase,
              cf |-> NoClientFile, rest |-> RestLines(lines),
              out |-> Append(printed, "Enter passphrase: ")]
        ELSE IF v.exc # "none"
        THEN [exc |-> v.exc, abandon |-> FALSE, passphrase |-> NoPassphrase,
              cf |-> NoClientFile, rest |-> RestLines(lines),
              out |-> Append(printed, "Enter passphrase: ")]
        ELSE IF v.value
        THEN [exc |-> "none", abandon |-> FALSE,
              passphrase |-> Passphrase(pp), cf |-> NewClientFile(pp),
              rest |-> RestLines(lines),
              out |-> Append(printed, "Enter passphrase: ")]
        ELSE QueryPassphrase(
                 RestLines(lines), f, n,
                 printed \o <<"Enter passphrase: ",
                              "Passphrase is incorrect. Try again.">>)

Base32Alphabet ==
    {"A", "B", "C", "D", "E", "F", "G", "H", "I", "J", "K", "L", "M",
     "N", "O", "P", "Q", "R", "S", "T", "U", "V", "W", "X", "Y", "Z",
     "2", "3", "4", "5", "6", "7"}

\* HOTP.convert_base32_secret_key: the string is padded with "=" to a
\* multiple of 8 characters and handed to base64.b32decode, which accepts
\* 0, 1, 3, 4 or 6 padding characters after characters of the alphabet
ConvertBase32SecretKey(base32_secret_key) ==
    IF /\ \A i \in 1..Len(base32_secret_key) :
              base32_secret_key[i] \in Base32Alphabet
       /\ (Len(base32_secret_key) % 8) \in {0, 2, 4, 5, 7}
    THEN Return([b32decode |-> base32_secret_key])
    ELSE Raise("ValueError")

\* the characters of a line of input
Characters(line) ==
    CASE line = "" -> << >>
      [] line = "AB" -> <<"A", "B">>
      [] line = "a b" -> <<"a", " ", "b">>
      [] line = "A" -> <<"A">>
      [] line = "p1" -> <<"p", "1">>
      [] line = "p2" -> <<"p", "2">>
      [] OTHER -> <<"?">>

Upper(c) ==
    CASE c = "a" -> "A"
      [] c = "b" -> "B"
      [] c = "p" -> "P"
      [] OTHER -> c

\* "".join(ss.split()).upper()
JoinSplitUpper(ss) ==
    LET joined == SelectSeq(ss, LAMBDA c : c # " ")
    IN  [i \in 1..Len(joined) |-> Upper(joined[i])]

\* CLI._query_shared_secret: the shared secret (none when abandoned), the
\* lines left and what was printed
RECURSIVE QuerySharedSecret(_, _)
QuerySharedSecret(lines, printed) ==
    LET ss == JoinSplitUpper(Characters(ReadLine(lines)))
    IN  IF ReadLine(lines) = ""
        THEN [abandon |-> TRUE, given |-> FALSE, rest |-> RestLines(lines),
              out |-> Append(printed, "Enter shared secret: ")]
        ELSE IF ConvertBase32SecretKey(ss).exc # "none"
        THEN QuerySharedSecret(
                 RestLines(lines),
                 printed \o <<"Enter shared secret: ",
                              "Invalid shared secret string.">>)
        ELSE [abandon |-> FALSE, given |-> TRUE, shared_secret |-> ss,
              rest |-> RestLines(lines),
              out |-> Append(printed, "Enter shared secret: ")]

-----------------------------------------------------------------------------
(* CLI: the operations on the data file *)

\* datetime.datetime.now(ClientData.tz()) and time.time() of the run
Now == [year |-> 2016, rest |-> "0704T131415-0500"]
UnixNow == 1467656055

\* HOTP.generate_code_from_counter; the HMAC-SHA1 of a key and a message is
\* kept as the pair it is computed from
GenerateCodeFromCounter(secret_key, counter, code_length) ==
    LET k == IF IsBytes(secret_key) THEN Return(secret_key.bytes)
             ELSE ConvertBase32SecretKey(secret_key.str)
    IN  IF 0 > counter THEN Raise("ValueError")
        ELSE IF 1 > code_length \/ 10 < code_length THEN Raise("ValueError")
        ELSE IF k.exc # "none" THEN Raise(k.exc)
        ELSE Return([hmac |-> [key |-> k.value, message |-> counter],
                     code_length |-> code_length])

\* HOTP.generate_code_from_time: the code and the remaining seconds
GenerateCodeFromTime(secret_key, code_length, period) ==
    LET k == IF IsBytes(secret_key) THEN Return(secret_key.bytes)
             ELSE ConvertBase32SecretKey(secret_key.str)
        intervals == UnixNow \div period
        remaining_seconds == UnixNow - intervals * period
    IN  IF 0 >= period THEN Raise("ValueError")
        ELSE IF 1 > code_length \/ 10 < code_length THEN Raise("ValueError")
        ELSE IF k.exc # "none" THEN Raise(k.exc)
        ELSE Return([code |-> [hmac |-> [key |-> k.value, message |-> intervals],
                               code_length |-> code_length],
                     remaining |-> period - remaining_seconds])

\* CLI._make_client_data
MakeClientData(args, shared_secret, pads) ==
    LET base == [clientId |-> args.clientIdToAdd,
                 sharedSecret |-> Str(shared_secret)]
        kind == IF Has(args, "counter")
                THEN [counterFromTime |-> FALSE, lastCount |-> args.counter]
                ELSE IF Has(args, "period") THEN [period |-> args.period]
                ELSE << >>
        plen == IF Has(args, "passwordLength")
                THEN [passwordLength |-> args.passwordLength]
                ELSE << >>
    IN  ClientDataInit(base @@ kind @@ plen, pads)

\* CLI._modify_client_data that leaves lastCount to its default
ModifyClientDataWithoutCount(old_cd, new_client_id, pads) ==
    ClientDataInit(
        [clientId |-> new_client_id,
         sharedSecret |-> old_cd.shared_secret,
         counterFromTime |-> old_cd.counter_from_time,
         lastCountUpdateTime |-> old_cd.last_count_update_time,
         period |-> old_cd.period,
         passwordLength |-> old_cd.password_length,
         tags |-> old_cd.tags,
         note |-> old_cd.note], pads)

\* CLI._modify_client_data(old_cd, clientId=new_client_id)
ModifyClientData(old_cd, new_client_id, pads) ==
    ClientDataInit(
        [clientId |-> new_client_id,
         sharedSecret |-> old_cd.shared_secret,
         counterFromTime |-> old_cd.counter_from_time,
         lastCount |-> old_cd.last_count,
         lastCountUpdateTime |-> old_cd.last_count_update_time,
         period |-> old_cd.period,
         passwordLength |-> old_cd.password_length,
         tags |-> old_cd.tags,
         note |-> old_cd.note], pads)

ClientIds(cds) == [i \in 1..Len(cds) |-> cds[i].client_id]
InSeq(x, s) == \E i \in 1..Len(s) : s[i] = x

\* CLI._add_client_data_to_file without the search for the client id
AddClientDataToFileNoSearch(cfo, f, cd_new, pads) ==
    LET cd == IF ~cd_new.counter_from_time
              THEN SetLastCountUpdateTime(cd_new, Strftime(Now, pads), pads)
              ELSE cd_new
        Saved(r) == [exc |-> r.exc, file |-> r.file]
        Loaded(cds_existing) ==
            IF cds_existing.exc # "none"
            THEN [exc |-> cds_existing.exc, file |-> f]
            ELSE Saved(Save(cfo, f, Append(cds_existing.value, cd),
                            NoPassphrase))
    IN  Loaded(Load(cfo, f, 0, pads))

\* CLI._add_client_data_to_file: the exception and the file after the call
AddClientDataToFile(cfo, f, cd_new, pads) ==
    LET cd == IF ~cd_new.counter_from_time
              THEN SetLastCountUpdateTime(cd_new, Strftime(Now, pads), pads)
              ELSE cd_new
        Saved(r) == [exc |-> r.exc, file |-> r.file]
        Loaded(cds_existing) ==
            IF cds_existing.exc # "none"
            THEN [exc |-> cds_existing.exc, file |-> f]
            ELSE IF InSeq(cd_new.client_id, ClientIds(cds_existing.value))
            THEN [exc |-> "DuplicateKeyError", file |-> f]
            ELSE Saved(Save(cfo, f, Append(cds_existing.value, cd),
                            NoPassphrase))
    IN  Loaded(Load(cfo, f, 0, pads))

\* the filter with CLI._confirm_delete over the client ids to delete: the
\* ids confirmed, the lines left and the number of prompts printed
RECURSIVE ConfirmDeletes(_, _)
ConfirmDeletes(client_ids, lines) ==
    LET Confirmed(q, more) ==
            [ids |-> IF q.answer = "yes"
                     THEN <<Head(client_ids)>> \o more.ids
                     ELSE more.ids,
             rest |-> more.rest,
             asked |-> q.asked + more.asked]
        Asked(q) == Confirmed(q, ConfirmDeletes(Tail(client_ids), q.rest))
    IN  IF client_ids = << >>
        THEN [ids |-> << >>, rest |-> lines, asked |-> 0]
        ELSE Asked(QueryPrompt(lines, "no", 0))

\* CLI._delete_client_data_from_file: the exception, the file after the
\* call, the count returned and the number of prompts printed
DeleteClientDataFromFile(cfo, f, id_pattern, quiet, lines, pads) ==
    LET Saved(r, deleted_count, asked) ==
            [exc |-> r.exc, file |-> r.file,
             deleted_count |-> deleted_count, asked |-> asked]
        Kept(cds_to_keep, deleted_count, asked) ==
            IF 0 < deleted_count
            THEN Saved(Save(cfo, f, cds_to_keep, NoPassphrase),
                       deleted_count, asked)
            ELSE [exc |-> "none", file |-> f, deleted_count |-> 0,
                  asked |-> asked]
        Keep(cds, cds_to_keep, asked) ==
            Kept(cds_to_keep, Len(cds) - Len(cds_to_keep), asked)
        Confirmed(cds, confirmed) ==
            Keep(cds,
                 SelectSeq(cds, LAMBDA x : ~InSeq(x.client_id, confirmed.ids)),
                 confirmed.asked)
        Matched(cds, cds_to_delete) ==
            IF 0 = Len(cds_to_delete)
            THEN [exc |-> "none", file |-> f, deleted_count |-> 0,
                  asked |-> 0]
            ELSE Confirmed(
                     cds,
                     IF quiet
                     THEN [ids |-> ClientIds(cds_to_delete), asked |-> 0]
                     ELSE ConfirmDeletes(ClientIds(cds_to_delete), lines))
        Loaded(cds) ==
            IF cds.exc # "none"
            THEN [exc |-> cds.exc, file |-> f, deleted_count |-> 0,
                  asked |-> 0]
            ELSE Matched(cds.value,
                         SelectSeq(cds.value,
                                   LAMBDA x : MatchClientId(x, id_pattern)))
    IN  Loaded(Load(cfo, f, 0, pads))

\* CLI._update_client_in_data_file: the exception and the file after the call
UpdateClientInDataFile(cfo, f, cd, pads) ==
    LET Saved(r) == [exc |-> r.exc, file |-> r.file]
        Loaded(cds) ==
            IF cds.exc # "none" THEN [exc |-> cds.exc, file |-> f]
            ELSE IF InSeq(cd.client_id, ClientIds(cds.value))
            THEN Saved(Save(cfo, f,
                            [i \in 1..Len(cds.value) |->
                                IF cd.client_id = cds.value[i].client_id
                                THEN cd ELSE cds.value[i]],
                            NoPassphrase))
            ELSE [exc |-> "none", file |-> f]
    IN  Loaded(Load(cfo, f, 0, pads))

\* a line of output
Line(text) == [text |-> text]
Lines(texts) == [i \in 1..Len(texts) |-> Line(texts[i])]

\* CLI._generate_once from the i-th configuration on; st holds the exception
\* raised, the ClientData objects of cds_to_calc, the file, the lines
\* printed and whether a time-based code was calculated
RECURSIVE GenerateOnce(_, _, _, _, _)
GenerateOnce(cfo, st, i, includeCounterBasedConfigs, pads) ==
    LET Following(st1) ==
            GenerateOnce(cfo, st1, i + 1, includeCounterBasedConfigs, pads)
        TimeBased(cd, g) ==
            IF g.exc # "none" THEN [st EXCEPT !.exc = g.exc]
            ELSE Following([st EXCEPT
                          !.timed = TRUE,
                          !.out = Append(@, [text |-> "expires in",
                                             client_id |-> cd.client_id,
                                             code |-> g.value.code,
                                             seconds |-> g.value.remaining])])
        Updated(inc, g, u) ==
            IF u.exc # "none"
            THEN [st EXCEPT !.exc = u.exc, !.cds[i] = inc, !.file = u.file]
            ELSE Following([st EXCEPT
                          !.cds[i] = inc,
                          !.file = u.file,
                          !.out = Append(@, [text |-> "for count",
                                             client_id |-> inc.client_id,
                                             code |-> g.value,
                                             count |-> inc.last_count])])
        Coded(inc, g) ==
            IF g.exc # "none"
            THEN [st EXCEPT !.exc = g.exc, !.cds[i] = inc]
            ELSE Updated(inc, g, UpdateClientInDataFile(cfo, st.file, inc, pads))
        CounterBased(inc) ==
            Coded(inc, GenerateCodeFromCounter(
                           inc.shared_secret, inc.last_count,
                           inc.password_length))
        One(cd) ==
            IF cd.counter_from_time
            THEN TimeBased(cd, GenerateCodeFromTime(
                                   cd.shared_secret, cd.password_length,
                                   cd.period))
            ELSE IF includeCounterBasedConfigs
            THEN CounterBased(IncrementedCount(cd, Now, pads))
            ELSE Following(st)
    IN  IF i > Len(st.cds) \/ st.exc # "none" THEN st ELSE One(st.cds[i])

\* the loop of CLI._generate, interrupted from the keyboard during the
\* sleep that follows the last of the given number of passes
RECURSIVE GenerateLoop(_, _, _, _, _, _)
GenerateLoop(cfo, st, refresh, includeCounterBasedConfigs, passes, pads) ==
    LET Calculated(once) ==
            IF once.exc # "none" THEN once
            ELSE IF ~once.timed THEN once
            ELSE IF refresh = "once" THEN once
            ELSE IF passes <= 1 THEN [once EXCEPT !.exc = "KeyboardInterrupt"]
            ELSE GenerateLoop(cfo, [once EXCEPT !.out = Append(@, Line(""))],
                              refresh, includeCounterBasedConfigs,
                              passes - 1, pads)
    IN  Calculated(GenerateOnce(cfo, [st EXCEPT !.timed = FALSE], 1,
                                includeCounterBasedConfigs, pads))

\* CLI._generate, were it to calculate the counter-based configurations
\* whether or not --counter-based is given
GenerateAlwaysCounterBased(cfo, f, id_pattern, refresh, includeCounterBasedConfigs, passes, pads) ==
    LET Matched(cds_to_calc) ==
            IF 0 = Len(cds_to_calc)
            THEN [exc |-> "none", cds |-> << >>, file |-> f,
                  out |-> <<Line("No HOTP/TOTP configurations found.")>>,
                  timed |-> FALSE]
            ELSE GenerateLoop(
                     cfo,
                     [exc |-> "none", cds |-> cds_to_calc, file |-> f,
                      out |-> << >>, timed |-> FALSE],
                     refresh, TRUE, passes, pads)
        Loaded(cds) ==
            IF cds.exc # "none"
            THEN [exc |-> cds.exc, cds |-> << >>, file |-> f, out |-> << >>,
                  timed |-> FALSE]
            ELSE Matched(SelectSeq(cds.value,
                                   LAMBDA x : MatchClientId(x, id_pattern)))
    IN  Loaded(Load(cfo, f, 0, pads))

\* CLI._generate
Generate(cfo, f, id_pattern, refresh, includeCounterBasedConfigs, passes, pads) ==
    LET Matched(cds_to_calc) ==
            IF 0 = Len(cds_to_calc)
            THEN [exc |-> "none", cds |-> << >>, file |-> f,
                  out |-> <<Line("No HOTP/TOTP configurations found.")>>,
                  timed |-> FALSE]
            ELSE GenerateLoop(
                     cfo,
                     [exc |-> "none", cds |-> cds_to_calc, file |-> f,
                      out |-> << >>, timed |-> FALSE],
                     refresh, includeCounterBasedConfigs, passes, pads)
        Loaded(cds) ==
            IF cds.exc # "none"
            THEN [exc |-> cds.exc, cds |-> << >>, file |-> f, out |-> << >>,
                  timed |-> FALSE]
            ELSE Matched(SelectSeq(cds.value,
                                   LAMBDA x : MatchClientId(x, id_pattern)))
    IN  Loaded(Load(cfo, f, 0, pads))

\* CLI._rewrite_data: the exception, the ClientFile object and the file
\* after the call
RewriteData(cfo, f, new_passphrase, pads) ==
    LET Loaded(cds) ==
            IF cds.exc # "none"
            THEN [exc |-> cds.exc, cf |-> cfo, file |-> f]
            ELSE Save(cfo, f, cds.value, new_passphrase)
    IN  IF ~new_passphrase.given
        THEN [exc |-> "AssertionError", cf |-> cfo, file |-> f]
        ELSE Loaded(Load(cfo, f, 0, pads))

\* CLI._rename_client_id: the exception, the file after the call and the
\* value returned
RenameClientId(cfo, f, old_client_id, new_client_id, pads) ==
    LET matches(cd) == ReMatch(EscapeForRe(old_client_id), cd.client_id)
        Saved(r) == [exc |-> r.exc, file |-> r.file, changed |-> TRUE]
        Made(made, found_id) ==
            LET failed == {i \in 1..Len(made) : made[i].exc # "none"}
            IN  IF failed # {}
                THEN [exc |-> made[CHOOSE i \in failed :
                                       \A j \in failed : i <= j].exc,
                      file |-> f, changed |-> FALSE]
                ELSE IF ~found_id
                THEN [exc |-> "none", file |-> f, changed |-> FALSE]
                ELSE Saved(Save(cfo, f,
                                [i \in 1..Len(made) |-> made[i].value],
                                NoPassphrase))
        Loaded(cds_old) ==
            IF cds_old.exc # "none"
            THEN [exc |-> cds_old.exc, file |-> f, changed |-> FALSE]
            ELSE Made([i \in 1..Len(cds_old.value) |->
                          IF matches(cds_old.value[i])
                          THEN ModifyClientData(cds_old.value[i],
                                                new_client_id, pads)
                          ELSE Return(cds_old.value[i])],
                      \E i \in 1..Len(cds_old.value) :
                          matches(cds_old.value[i]))
    IN  Loaded(Load(cfo, f, 0, pads))

-----------------------------------------------------------------------------
(* CLI: one run of the command after another over the data file *)

\* the records of a data file, read with the passphrase it was saved with
Stored(f, pads) ==
    IF f.exists /\ Len(f.blocks) >= 2 /\ IsCipher(f.blocks[2])
    THEN LET r == Load(NewClientFile(PassphraseOf(FileKey(f))), f, 0, pads)
         IN  IF r.exc = "none" THEN r.value ELSE << >>
    ELSE << >>

NewIds == {IdA, IdAB}

AddArgs ==
    {[subcmd |-> "add", clientIdToAdd |-> id] : id \in NewIds}
    \cup {[subcmd |-> "add", clientIdToAdd |-> id, counter |-> 0] :
              id \in NewIds}
    \cup {[subcmd |-> "add", clientIdToAdd |-> IdA, counter |-> 0,
           period |-> 30]}

DeleteArgs ==
    {[subcmd |-> "delete", clientIdPattern |-> <<"*">>, quiet |-> FALSE],
     [subcmd |-> "delete", clientIdPattern |-> <<"b">>, quiet |-> TRUE]}

GenerateArgs ==
    {[subcmd |-> "generate", clientIdPattern |-> << >>, refresh |-> r,
      includeCounterBasedConfigs |-> TRUE] : r \in {"once", "5"}}
    \cup {[subcmd |-> "generate", clientIdPattern |-> <<"b">>,
           refresh |-> "once", includeCounterBasedConfigs |-> FALSE],
          [subcmd |-> "generate", clientIdPattern |-> << >>,
           refresh |-> "5", includeCounterBasedConfigs |-> FALSE]}

SetArgs ==
    {[subcmd |-> "set", subsubcmd |-> "passphrase"]}
    \cup {[subcmd |-> "set", subsubcmd |-> "clientid",
           oldClientId |-> old, newClientId |-> new] :
              old \in {IdA, << >>}, new \in {IdAB}}
    \cup {[subcmd |-> "set", subsubcmd |-> "clientid",
           oldClientId |-> IdA, newClientId |-> << >>]}
    \cup {[subcmd |-> "set", subsubcmd |-> "clientid",
           oldClientId |-> <<"*">>, newClientId |-> IdAB]}

InfoArgs == {[subcmd |-> "info"]}

\* the command lines tried on a data file: no more than MaxStore records
\* are added, and no counter is raised above MaxCount
CommandLines(f, pads) ==
    LET cds == Stored(f, pads)
    IN  (IF Len(cds) < MaxStore THEN AddArgs ELSE {})
        \cup DeleteArgs
        \cup {a \in GenerateArgs :
                  a.includeCounterBasedConfigs
                      => \A i \in 1..Len(cds) : cds[i].last_count < MaxCount}
        \cup SetArgs \cup InfoArgs

\* the lines typed on stdin, no more than MaxLines of them: answers to
\* one kind of prompt, followed by answers to another
InputLines(first, rest) ==
    {ab \in UNION {[1..i -> first] \X [1..j -> rest] :
                       i \in 0..MaxLines, j \in 0..MaxLines} :
         Len(ab[1]) + Len(ab[2]) <= MaxLines}

NoArgs == [subcmd |-> "none"]
NoSecret == [given |-> FALSE]

\* the exception is not caught: the traceback is printed and the run ends
Traceback(e) == <<[text |-> "Traceback", exc |-> e]>>

\* the prompt of CLI._query_prompt, printed again after each bad input
PromptOut(prompt, asked) ==
    [i \in 1..(2 * asked - 1) |->
        Line(IF i % 2 = 1 THEN prompt ELSE "Bad input.")]

Init ==
    /\ file = NoFile
    /\ cf = NoClientFile
    /\ cli = IdleCli
    /\ out = << >>
    /\ procs = << >>
    /\ inp = << >>
    /\ result = NoResult
    /\ libcPads = FALSE

\* m = CLI()
NewCLI ==
    /\ cli.pc \in {"none", "executed", "exit", "crashed"}
    /\ cli' = [pc |-> "new", args |-> NoArgs, passphrase |-> NoPassphrase,
               new_passphrase |-> NoPassphrase, shared_secret |-> NoSecret,
               cf |-> NoClientFile, abandon_cli |-> FALSE]
    /\ out' = << >>
    /\ inp' = << >>
    /\ UNCHANGED <<file, cf, procs, result, libcPads>>

\* parser.error(): the usage message is printed and the run ends
ArgsError(args) ==
    \/ args.subcmd = "add" /\ Has(args, "counter") /\ Has(args, "period")
    \/ /\ args.subcmd = "set"
       /\ args.subsubcmd = "clientid"
       /\ (HasStar(args.oldClientId) \/ HasStar(args.newClientId))

\* m.parse_command_args(sys.argv[1:])
ParseCommandArgs ==
    /\ cli.pc = "new"
    /\ \E args \in CommandLines(file, libcPads) :
        IF ArgsError(args)
        THEN /\ cli' = [cli EXCEPT !.pc = "exit"]
             /\ out' = <<Line("usage")>>
        ELSE /\ cli' = [cli EXCEPT !.pc = "parsed", !.args = args]
             /\ out' = << >>
    /\ UNCHANGED <<file, cf, procs, inp, result, libcPads>>

\* the lines typed to create_data_file: answers to its offer, followed by
\* passphrase entries, no more than MaxEntries of them
CreateLines ==
    UNION {[1..i -> {"yes", "no", "x", ""}] \X [1..j -> Passphrases] :
               i \in 0..MaxLines, j \in 0..MaxEntries}

\* m.create_data_file()
CreateDataFile ==
    /\ cli.pc = "parsed"
    /\ \E typed \in IF cli.args.subcmd = "add" /\ ~file.exists
                     THEN CreateLines
                     ELSE {<<<< >>, << >>>>} :
        LET Abandoned(printed) ==
                /\ cli' = [cli EXCEPT !.pc = "created", !.abandon_cli = TRUE]
                /\ out' = printed
                /\ file' = file
            Saved(c, r, printed) ==
                /\ cli' = [cli EXCEPT
                              !.pc = IF r.exc # "none" THEN "crashed"
                                     ELSE "created",
                              !.passphrase = c.passphrase,
                              !.cf = r.cf]
                /\ out' = IF r.exc # "none" THEN Traceback(r.exc)
                          ELSE printed \o Lines(c.out)
                /\ file' = r.file
            Captured(c, printed) ==
                \* no line is typed that create_data_file does not read
                /\ c.rest = << >>
                /\ IF ~c.passphrase.given
                   THEN Abandoned(printed \o Lines(c.out))
                   ELSE Saved(c,
                              Save(NewClientFile(c.passphrase.pp), file,
                                   << >>, NoPassphrase),
                              printed)
            Answered(q, printed) ==
                \* each line is typed in answer to the prompt that reads it
                /\ q.rest = typed[2]
                /\ IF q.answer # "yes"
                   THEN typed[2] = << >> /\ Abandoned(printed)
                   ELSE Captured(CapturePassphrase(q.rest, << >>), printed)
            Asked(q) ==
                Answered(q, PromptOut("No data file was found. Do you want to create your data file?", q.asked))
        IN  /\ IF cli.abandon_cli \/ cli.args.subcmd = "info" \/ file.exists
               THEN /\ cli' = [cli EXCEPT !.pc = "created"]
                    /\ out' = << >>
                    /\ file' = file
               ELSE IF "add" # cli.args.subcmd
               THEN Abandoned(<<Line("No data file was found; cannot complete request.")>>)
               ELSE Asked(QueryPrompt(typed[1] \o typed[2], "yes", 0))
            /\ inp' = typed[1] \o typed[2]
    /\ UNCHANGED <<cf, procs, result, libcPads>>

\* m.prompt_for_secrets(): the fields of the CLI object after the call, the
\* exception raised, what was printed, and the lines that were left when
\* the passphrase had been asked for
PromptForSecretsCall(c, f, lines, n) ==
    LET needs == c.args.subcmd \in {"add", "delete", "generate", "list", "set"}
        Prompted(c2, q, printed) ==
            [cli |-> c2, exc |-> "none", out |-> Lines(q.out \o printed),
             rest |-> q.rest]
        NewPassphrase(c1, q, p) ==
            Prompted([c1 EXCEPT !.new_passphrase = p.passphrase,
                                !.abandon_cli = p.abandon],
                     q, p.out)
        SharedSecret(c1, q, s) ==
            Prompted([c1 EXCEPT !.shared_secret =
                                    IF s.given
                                    THEN [given |-> TRUE,
                                          shared_secret |-> s.shared_secret]
                                    ELSE NoSecret,
                                !.abandon_cli = s.abandon],
                     q, s.out)
        Entered(c1, q) ==
            IF needs /\ ~q.passphrase.given
            THEN Prompted(c1, q, << >>)
            ELSE IF c.args.subcmd = "set" /\ c.args.subsubcmd = "passphrase"
            THEN NewPassphrase(c1, q, CapturePassphrase(q.rest, << >>))
            ELSE IF c.args.subcmd = "add"
            THEN SharedSecret(c1, q, QuerySharedSecret(q.rest, << >>))
            ELSE Prompted(c1, q, << >>)
        Queried(q) ==
            IF q.exc # "none"
            THEN [cli |-> c, exc |-> q.exc, out |-> Lines(q.out),
                  rest |-> q.rest]
            ELSE Entered([c EXCEPT !.passphrase = q.passphrase, !.cf = q.cf,
                                   !.abandon_cli = q.abandon],
                         q)
    IN  IF c.abandon_cli
        THEN [cli |-> c, exc |-> "none", out |-> << >>, rest |-> lines]
        ELSE IF needs /\ ~c.passphrase.given
        THEN Queried(QueryPassphrase(lines, f, n, << >>))
        ELSE Queried([exc |-> "none", abandon |-> FALSE,
                      passphrase |-> c.passphrase, cf |-> c.cf,
                      rest |-> lines, out |-> << >>])

PromptForSecrets ==
    /\ cli.pc = "created"
    /\ \E typed \in InputLines(
                        Passphrases,
                        IF cli.args.subcmd = "add" THEN {"a b", "A"} ELSE {}),
          n \in JunkBytes :
        LET Called(r) ==
                \* each line is typed in answer to the prompt that reads it
                /\ cli.args.subcmd = "add" => r.rest = typed[2]
                /\ cli' = [r.cli EXCEPT
                              !.pc = IF r.exc = "none" THEN "prompted"
                                     ELSE "crashed"]
                /\ out' = IF r.exc = "none" THEN r.out
                          ELSE r.out \o Traceback(r.exc)
        IN  Called(PromptForSecretsCall(cli, file, typed[1] \o typed[2], n))
    /\ UNCHANGED <<file, cf, procs, inp, result, libcPads>>

\* CLI._execute_add: the exception, the file after the call and what was
\* printed
ExecuteAdd(c, f, pads) ==
    LET Added(r) ==
            IF r.exc = "DuplicateKeyError"
            THEN [exc |-> "none", cf |-> c.cf, file |-> r.file,
                  out |-> <<Line("Add failed. That configuration already exists.")>>]
            ELSE IF r.exc # "none"
            THEN [exc |-> r.exc, cf |-> c.cf, file |-> r.file, out |-> << >>]
            ELSE [exc |-> "none", cf |-> c.cf, file |-> r.file,
                  out |-> <<Line("OK")>>]
        Made(cd) ==
            IF cd.exc # "none"
            THEN [exc |-> cd.exc, cf |-> c.cf, file |-> f, out |-> << >>]
            ELSE Added(AddClientDataToFile(c.cf, f, cd.value, pads))
    IN  IF ~c.shared_secret.given
        THEN [exc |-> "ValueError", cf |-> c.cf, file |-> f, out |-> << >>]
        ELSE Made(MakeClientData(c.args, c.shared_secret.shared_secret, pads))

\* CLI._execute_delete
ExecuteDelete(c, f, lines, pads) ==
    LET Printed(r, asked) ==
            IF r.exc # "none"
            THEN [exc |-> r.exc, cf |-> c.cf, file |-> r.file, out |-> asked]
            ELSE [exc |-> "none", cf |-> c.cf, file |-> r.file,
                  out |-> Append(asked,
                                 [text |-> "Deleted configurations.",
                                  delete_count |-> r.deleted_count])]
        Deleted(r) ==
            Printed(r, IF r.asked = 0 THEN << >>
                       ELSE PromptOut("Delete?", r.asked))
    IN  Deleted(DeleteClientDataFromFile(c.cf, f, c.args.clientIdPattern,
                                         c.args.quiet, lines, pads))

\* CLI._execute_generate
ExecuteGenerate(c, f, passes, pads) ==
    LET Generated(r) ==
            [exc |-> r.exc, cf |-> c.cf, file |-> r.file, out |-> r.out]
    IN  Generated(Generate(c.cf, f, c.args.clientIdPattern, c.args.refresh,
                           c.args.includeCounterBasedConfigs, passes, pads))

\* CLI._execute_set
ExecuteSet(c, f, pads) ==
    LET Rewritten(w) ==
            IF w.exc # "none"
            THEN [exc |-> w.exc, cf |-> w.cf, file |-> w.file, out |-> << >>]
            ELSE [exc |-> "none", cf |-> w.cf, file |-> w.file,
                  out |-> <<Line("OK"),
                            Line("'set passphrase' is not implemented.")>>]
        Renamed(r) ==
            IF r.exc # "none"
            THEN [exc |-> r.exc, cf |-> c.cf, file |-> r.file, out |-> << >>]
            ELSE IF r.changed
            THEN [exc |-> "none", cf |-> c.cf, file |-> r.file,
                  out |-> <<Line("OK")>>]
            ELSE [exc |-> "none", cf |-> c.cf, file |-> r.file,
                  out |-> <<Line("No configuration found with client ID"),
                            Line("Nothing changed.")>>]
    IN  IF "passphrase" = c.args.subsubcmd
        THEN Rewritten(RewriteData(c.cf, f, c.new_passphrase, pads))
        ELSE Renamed(RenameClientId(c.cf, f, c.args.oldClientId,
                                    c.args.newClientId, pads))

\* m.execute(), were it to go on after the command was abandoned
ExecuteCallWhenAbandoned(c, f, lines, passes, pads) ==
    IF "info" = c.args.subcmd
    THEN [exc |-> "none", cf |-> c.cf, file |-> f,
          out |-> <<Line("authenticator version")>>]
    ELSE IF ~c.cf.made
    THEN [exc |-> "none", cf |-> c.cf, file |-> f, out |-> << >>]
    ELSE IF "add" = c.args.subcmd THEN ExecuteAdd(c, f, pads)
    ELSE IF "delete" = c.args.subcmd THEN ExecuteDelete(c, f, lines, pads)
    ELSE IF "generate" = c.args.subcmd THEN ExecuteGenerate(c, f, passes, pads)
    ELSE ExecuteSet(c, f, pads)

\* m.execute(): the exception, the ClientFile object, the file and what was
\* printed
ExecuteCall(c, f, lines, passes, pads) ==
    IF c.abandon_cli
    THEN [exc |-> "none", cf |-> c.cf, file |-> f, out |-> << >>]
    ELSE IF "info" = c.args.subcmd
    THEN [exc |-> "none", cf |-> c.cf, file |-> f,
          out |-> <<Line("authenticator version")>>]
    ELSE IF ~c.cf.made
    THEN [exc |-> "none", cf |-> c.cf, file |-> f, out |-> << >>]
    ELSE IF "add" = c.args.subcmd THEN ExecuteAdd(c, f, pads)
    ELSE IF "delete" = c.args.subcmd THEN ExecuteDelete(c, f, lines, pads)
    ELSE IF "generate" = c.args.subcmd THEN ExecuteGenerate(c, f, passes, pads)
    ELSE ExecuteSet(c, f, pads)

Execute ==
    /\ cli.pc = "prompted"
    /\ \E lines \in IF cli.args.subcmd = "delete"
                     THEN {typed[1] : typed \in
                               InputLines({"yes", "no", "x"}, {})}
                     ELSE {<< >>},
          passes \in IF cli.args.subcmd = "generate"
                      THEN 1..MaxPasses ELSE {1} :
        LET Stopped(r, cds) ==
                /\ \A i \in 1..Len(cds) : cds[i].last_count <= MaxCount
                /\ cli' = [cli EXCEPT
                              !.pc = IF r.exc \in {"none", "KeyboardInterrupt"}
                                     THEN "executed" ELSE "crashed",
                              !.cf = r.cf]
                /\ file' = r.file
                /\ out' = IF r.exc = "none" THEN r.out
                          ELSE IF r.exc = "KeyboardInterrupt"
                          THEN Append(r.out, Line(""))
                          ELSE r.out \o Traceback(r.exc)
                /\ inp' = lines
            Called(r) == Stopped(r, Stored(r.file, libcPads))
        IN  Called(ExecuteCall(cli, file, lines, passes, libcPads))
    /\ UNCHANGED <<cf, procs, result, libcPads>>

Next ==
    \/ NewCLI
    \/ ParseCommandArgs
    \/ CreateDataFile
    \/ PromptForSecrets
    \/ Execute

Spec == Init /\ [][Next]_vars

\* C3: after any sequence of add, delete, rename (set clientid), generate
\* and passphrase-change operations on a store that starts empty, no two
\* records in the store file have the same client id.
C3_ClientIdsAreUnique ==
    \A i, j \in 1..Len(Stored(file, libcPads)) :
        i # j => Stored(file, libcPads)[i].client_id
                     # Stored(file, libcPads)[j].client_id

\* the lines of output that show a code for a count
CodesForCounts(printed) ==
    SelectSeq(printed, LAMBDA l : l.text = "for count")

\* a run of generate has come to its end, or was stopped from the keyboard
GenerateExecuted ==
    /\ cli.pc = "prompted" /\ cli.args.subcmd = "generate"
    /\ cli'.pc = "executed"

\* the places in the store of the counter-based records that a pattern
\* selects, in the order in which _generate_once goes through them
CounterBasedMatches(cds, id_pattern) ==
    SelectSeq([i \in 1..Len(cds) |-> i],
              LAMBDA i : /\ ~cds[i].counter_from_time
                         /\ MatchClientId(cds[i], id_pattern))

\* the records before and after a run of generate, the places of the
\* records it generates codes for, and the codes it showed, one for each of
\* the records in each pass: no count has decreased, each count is raised
\* by the number of codes generated for the record, and each code is
\* computed for the count the record is raised to by that generation
CountsRaisedByCodes(old, new, places, codes) ==
    /\ Len(new) = Len(old)
    /\ \A i \in 1..Len(old) :
         /\ new[i].client_id = old[i].client_id
         /\ new[i].last_count >= old[i].last_count
         /\ ~old[i].counter_from_time
              => new[i].last_count - old[i].last_count
                   = Cardinality({k \in 1..Len(codes) :
                                     places[((k - 1) % Len(places)) + 1] = i})
    /\ \A k \in 1..Len(codes) :
         LET i == places[((k - 1) % Len(places)) + 1]
             count == old[i].last_count + ((k - 1) \div Len(places)) + 1
         IN  /\ codes[k].client_id = old[i].client_id
             /\ codes[k].count = count
             /\ Return(codes[k].code)
                  = GenerateCodeFromCounter(old[i].shared_secret, count,
                                            old[i].password_length)

\* C4: across any sequence of store operations, the persisted last_count of
\* a counter-based record never decreases, and every code generation for
\* that record raises it by exactly 1, the code being computed for the
\* incremented value.
C4_CountRaisedByOnePerCode ==
    [][(GenerateExecuted /\ cli.args.includeCounterBasedConfigs)
          => CountsRaisedByCodes(
                 Stored(file, libcPads), Stored(file', libcPads),
                 CounterBasedMatches(Stored(file, libcPads),
                                     cli.args.clientIdPattern),
                 CodesForCounts(out'))]_vars

\* add is about to be executed for a client id that a record of the store
\* already has
AddingDuplicate ==
    /\ cli.pc = "prompted" /\ cli.args.subcmd = "add"
    /\ ~cli.abandon_cli
    /\ cli.shared_secret.given
    /\ InSeq(cli.args.clientIdToAdd, ClientIds(Stored(file, libcPads)))

\* C7: adding a configuration whose client id equals that of a record
\* already in the store fails with DuplicateKeyError, reported as 'Add
\* failed. That configuration already exists.', and leaves the store file
\* unchanged.
C7_DuplicateAddFails ==
    [][(AddingDuplicate /\ cli'.pc # "prompted")
          => /\ cli'.pc = "executed"
             /\ out' = <<Line("Add failed. That configuration already exists.")>>
             /\ file' = file]_vars

\* an add of a client id that is in the store has been refused
C7_Witness ==
    /\ cli.pc = "executed" /\ cli.args.subcmd = "add"
    /\ out = <<Line("Add failed. That configuration already exists.")>>
    /\ InSeq(cli.args.clientIdToAdd, ClientIds(Stored(file, libcPads)))

-----------------------------------------------------------------------------
(* ClientFile.save step by step: processes that save to the same path, a   *)
(* process that fails in the middle of it, and a reader of the file        *)

NumProcs == 2        \* processes that call save() on the path

Procs == 1..NumProcs

\* a block of a file that was never written: a write beyond the end of the
\* file leaves zero bytes in between
HoleBlock == [raw |-> Repeat(B(0), BlockSize)]

\* open(filepath, 'wb') that leaves the content of the file in place
OpenWithoutTruncating(f) == [exists |-> TRUE, blocks |-> f.blocks]

\* open(filepath, 'wb'): the file is created, or truncated to no content
OpenWb(f) == [exists |-> TRUE, blocks |-> << >>]

\* f.write() that puts the blocks at the start of the file
WriteAtStart(blocks, pos, chunk) ==
    [i \in 1..Max(Len(blocks), Len(chunk)) |->
        IF i <= Len(chunk) THEN chunk[i] ELSE blocks[i]]

\* what f.write() does to the file when the blocks of chunk reach it: they
\* go to the position of this writer in the file
WriteAt(blocks, pos, chunk) ==
    [i \in 1..Max(Len(blocks), pos + Len(chunk)) |->
        IF i > pos /\ i <= pos + Len(chunk) THEN chunk[i - pos]
        ELSE IF i <= Len(blocks) THEN blocks[i]
        ELSE HoleBlock]

\* the lists that the processes save
SaveLists == {<< >>, <<1>>, <<3>>, <<1, 2>>}

\* a data file that is there before the processes start
SavedBefore == Save(NewClientFile("p1"), NoFile, << >>, NoPassphrase).file

IdleProc ==
    [pc |-> "idle", data |-> << >>, pos |-> 0, last |-> FALSE,
     alone |-> FALSE]

SaveInit ==
    /\ file \in {NoFile, SavedBefore}
    /\ cf = NoClientFile
    /\ cli = IdleCli
    /\ out = << >>
    /\ procs = [p \in Procs |-> IdleProc]
    /\ inp = << >>
    /\ result = NoResult
    /\ libcPads = FALSE

\* save() up to the open: json.dumps, the header, _encrypt.  data is what the
\* process is going to write, header and cypher text, block by block; an
\* exception of json.dumps ends the call
SaveEncode(p) ==
    /\ procs[p].pc = "idle"
    /\ \E pp \in Passphrases, ixs \in SaveLists :
        LET Encoded(r) ==
                procs' = [procs EXCEPT
                            ![p].pc = IF r.exc # "none" THEN "failed"
                                      ELSE "encoded",
                            ![p].data = r.file.blocks]
        IN  Encoded(Save(NewClientFile(pp), NoFile,
                         MakeList(ixs, libcPads), NoPassphrase))
    /\ UNCHANGED <<file, cf, cli, out, inp, result, libcPads>>

\* with open(filepath, 'wb') as f.  last tells which process was the last
\* to change the file; alone tells that no other process had the file open
\* for writing while this one had
SaveOpen(p) ==
    /\ procs[p].pc = "encoded"
    /\ file' = OpenWb(file)
    /\ procs' = [q \in Procs |->
                    IF q = p
                    THEN [procs[p] EXCEPT
                             !.pc = "open", !.pos = 0, !.last = TRUE,
                             !.alone = \A o \in Procs :
                                          procs[o].pc # "open"]
                    ELSE [procs[q] EXCEPT
                             !.last = FALSE,
                             !.alone = IF procs[q].pc = "open" THEN FALSE
                                       ELSE @]]
    /\ UNCHANGED <<cf, cli, out, inp, result, libcPads>>

\* f.write(header); f.write(cypher_text): the bytes reach the file in one
\* piece or in several
SaveWrite(p) ==
    /\ procs[p].pc = "open"
    /\ procs[p].pos < Len(procs[p].data)
    /\ \E k \in 1..(Len(procs[p].data) - procs[p].pos) :
        /\ file' = [file EXCEPT
                       !.blocks = WriteAt(@, procs[p].pos,
                                          SubSeq(procs[p].data,
                                                 procs[p].pos + 1,
                                                 procs[p].pos + k))]
        /\ procs' = [q \in Procs |->
                        IF q = p
                        THEN [procs[p] EXCEPT !.pos = @ + k, !.last = TRUE]
                        ELSE [procs[q] EXCEPT !.last = FALSE]]
    /\ UNCHANGED <<cf, cli, out, inp, result, libcPads>>

\* the end of the with block: the file is closed and save() returns
SaveClose(p) ==
    /\ procs[p].pc = "open"
    /\ procs[p].pos = Len(procs[p].data)
    /\ procs' = [procs EXCEPT ![p].pc = "returned"]
    /\ UNCHANGED <<file, cf, cli, out, inp, result, libcPads>>

\* the process is killed, or a write raises OSError, while the file is open
SaveFail(p) ==
    /\ procs[p].pc = "open"
    /\ procs' = [procs EXCEPT ![p].pc = "failed"]
    /\ UNCHANGED <<file, cf, cli, out, inp, result, libcPads>>

\* another process loads the file
ReaderLoad ==
    /\ \E pp \in Passphrases, n \in JunkBytes :
        LET Loaded(r) ==
                result' = [op |-> "load", exc |-> r.exc,
                           records |-> IF r.exc = "none" THEN r.value
                                       ELSE << >>]
        IN  Loaded(Load(NewClientFile(pp), file, n, libcPads))
    /\ UNCHANGED <<file, cf, cli, out, procs, inp, libcPads>>

SaveNext ==
    \/ \E p \in Procs : SaveEncode(p)
    \/ \E p \in Procs : SaveOpen(p)
    \/ \E p \in Procs : SaveWrite(p)
    \/ \E p \in Procs : SaveClose(p)
    \/ \E p \in Procs : SaveFail(p)
    \/ ReaderLoad

SpecSave == SaveInit /\ [][SaveNext]_vars

\* the contents that a file has when no save is under way: what was there
\* before, and what the calls of save() write
WholeContents ==
    {SavedBefore.blocks}
        \cup {procs[p].data : p \in {q \in Procs : procs[q].data # << >>}}

\* C9: save either runs to completion or fails atomically: in no reachable
\* state, after a failure or as seen by another reader, does the target
\* file hold only part of the new content (a truncated file, or the header
\* without the full ciphertext).
C9_NoPartialContent ==
    file.exists => file.blocks \in WholeContents

\* C9 as the code has it: a save that fails before it opens the file leaves
\* the file as it was; from the open on, the file holds the part of the new
\* content that was written so far, and that is what a failure in the
\* middle of the save leaves behind, when no other save has changed the
\* file in the meantime.
C9_PartialContentUntilWritten ==
    [][\A p \in Procs :
          /\ (procs[p].pc = "idle" /\ procs'[p].pc = "failed")
                => file' = file
          /\ (procs'[p].pc \in {"open", "failed"}
                /\ procs'[p].last /\ procs'[p].alone)
                => /\ file'.exists
                   /\ file'.blocks
                        = SubSeq(procs'[p].data, 1, procs'[p].pos)]_vars

\* a save has failed in the middle: the file holds the header and part of
\* the cypher text
C9_Witness ==
    \E p \in Procs :
        /\ procs[p].pc = "failed" /\ procs[p].last /\ procs[p].alone
        /\ 1 < procs[p].pos /\ procs[p].pos < Len(procs[p].data)
        /\ file.blocks = SubSeq(procs[p].data, 1, procs[p].pos)
        /\ file.blocks \notin WholeContents

\* every call of save() has returned
AllReturned == \A p \in Procs : procs[p].pc = "returned"

\* C10: when two processes call save concurrently on the same path, the
\* last writer wins: under every interleaving of their open/truncate and
\* write steps the final file content is exactly the complete output of the
\* writer that wrote last, never a mixture of the two outputs.
C10_LastWriterWins ==
    AllReturned => \A p \in Procs : procs[p].last => file.blocks = procs[p].data

\* C10 as the code has it: the final file content is the complete output of
\* the writer that wrote last when no other process had the file open for
\* writing while that writer had.
C10_LastWriterWinsWhenAlone ==
    \A p \in Procs :
        (procs[p].pc = "returned" /\ procs[p].last /\ procs[p].alone)
            => file.blocks = procs[p].data

\* two saves of different content, one after the other: the file holds the
\* output of the second
C10_Witness ==
    /\ AllReturned
    /\ \E p \in Procs :
         /\ procs[p].last /\ procs[p].alone /\ file.blocks = procs[p].data
         /\ \E q \in Procs : q # p /\ procs[q].data # procs[p].data
                               /\ Len(procs[q].data) > Len(procs[p].data)

-----------------------------------------------------------------------------
(* ClientFile.load of data files that were not written by save(): files    *)
(* in the format of the data file, whatever their payload                  *)

\* a file in the format of the data file: the header, then the header and
\* the payload encrypted under the key of the passphrase
EncryptedFile(pp, payload) ==
    [exists |-> TRUE,
     blocks |-> SaveOutput(ProduceKey(pp), ProduceIv(ProduceKey(pp)),
                           payload)]

\* payloads: none at all, an empty list, and lists of records
PayloadSamples ==
    {<< >>} \cup {JsonDumps(MakeList(ixs, FALSE)).value :
                     ixs \in {<< >>, <<1>>, <<2>>, <<1, 2>>}}

LoadInit ==
    /\ file \in {EncryptedFile(pp, payload) :
                    pp \in Passphrases, payload \in PayloadSamples}
    /\ cf = NoClientFile
    /\ cli = IdleCli
    /\ out = << >>
    /\ procs = << >>
    /\ inp = << >>
    /\ result = NoResult
    /\ libcPads \in BOOLEAN

LoadNext == Construct \/ LoadCall \/ ValidateCall

SpecLoad == LoadInit /\ [][LoadNext]_vars

\* the payload after the header is empty
EmptyPayload(f) ==
    /\ f.exists /\ Len(f.blocks) >= 2 /\ IsCipher(f.blocks[2])
    /\ f = EncryptedFile(PassphraseOf(FileKey(f)), << >>)

\* C11: load of a correctly encrypted file whose payload after the 16-byte
\* header is empty returns an empty collection and raises no error.
C11_EmptyPayloadLoadsEmpty ==
    [][(LoadCall /\ EmptyPayload(file)
            /\ PassphraseOf(cf.key) = PassphraseOf(FileKey(file)))
          => (result'.exc = "none" /\ result'.records = << >>)]_vars

-----------------------------------------------------------------------------
(* ClientData objects: constructed, decoded from JSON text, incremented    *)

\* keyword arguments with values at and beyond the limits
KwSamples ==
    {base @@ pl @@ pd @@ lc :
        base \in [clientId : {<< >>, IdA},
                  sharedSecret : {Str(<< >>), SecretText, Bytes(<< >>),
                                  SecretBytes},
                  counterFromTime : BOOLEAN],
        pl \in {<< >>} \cup [passwordLength : {0, 1, 10, 11}],
        pd \in {<< >>} \cup [period : {-1, 0, 1}],
        lc \in {<< >>} \cup [lastCount : {-1, 0, 1}]}

DataInit ==
    /\ file = NoFile
    /\ cf = NoClientFile
    /\ cli = IdleCli
    /\ out = << >>
    /\ procs = << >>
    /\ inp = << >>
    /\ result = NoResult
    /\ libcPads \in BOOLEAN

\* cd = ClientData(**kw)
DataConstruct ==
    /\ \E kw \in KwSamples :
        LET Made(r) ==
                /\ inp' = kw
                /\ result' = IF r.exc # "none"
                             THEN [op |-> "new", exc |-> r.exc]
                             ELSE [op |-> "new", exc |-> "none",
                                   cd |-> r.value]
        IN  Made(ClientDataInit(kw, libcPads))
    /\ UNCHANGED <<file, cf, cli, out, procs, libcPads>>

\* the object has come out of a call
HasObject == result.op \in {"new", "decoded", "incremented"}
                 /\ result.exc = "none"

\* cd.incremented_count()
DataIncrement ==
    /\ HasObject
    /\ result.cd.last_count < MaxCount
    /\ result' = [op |-> "incremented", exc |-> "none",
                  cd |-> IncrementedCount(result.cd, Now, libcPads)]
    /\ UNCHANGED <<file, cf, cli, out, procs, inp, libcPads>>

\* json.loads(json.dumps([cd], cls=ClientDataEncoder),
\*            cls=ClientDataDecoder)[0]
DataDecode ==
    /\ HasObject
    /\ LET Decoded(r) ==
               result' = IF r.exc # "none"
                         THEN [op |-> "decoded", exc |-> r.exc]
                         ELSE [op |-> "decoded", exc |-> "none",
                               cd |-> r.value[1]]
           Dumped(text) ==
               IF text.exc # "none"
               THEN result' = [op |-> "decoded", exc |-> text.exc]
               ELSE Decoded(JsonLoads(text.value, libcPads))
       IN  Dumped(JsonDumps(<<result.cd>>))
    /\ UNCHANGED <<file, cf, cli, out, procs, inp, libcPads>>

DataNext == DataConstruct \/ DataIncrement \/ DataDecode

SpecData == DataInit /\ [][DataNext]_vars

\* the limits that the fields of a ClientData object stay within
WithinLimits(cd) ==
    /\ Len(cd.client_id) > 0
    /\ SecretLen(cd.shared_secret) > 0
    /\ cd.password_length >= 1 /\ cd.password_length <= 10
    /\ cd.period > 0
    /\ cd.last_count >= 0

\* keyword arguments with a value that is to be rejected
BeyondLimits(kw) ==
    \/ Has(kw, "passwordLength") /\ kw.passwordLength \in {0, 11}
    \/ Has(kw, "period") /\ kw.period <= 0
    \/ Has(kw, "lastCount") /\ kw.lastCount < 0

SetClientIdExecuted ==
    /\ cli.pc = "prompted" /\ ~cli.abandon_cli
    /\ cli.args.subcmd = "set" /\ cli.args.subsubcmd = "clientid"
    /\ cli'.pc = "executed"

\* the records after a rename, given the records before it: a record that
\* the old client id matches has the new client id and is otherwise as it
\* was, and the other records are as they were
OnlyClientIdReplaced(old, new, old_client_id, new_client_id) ==
    /\ Len(new) = Len(old)
    /\ \A i \in 1..Len(old) :
         new[i] = IF ReMatch(EscapeForRe(old_client_id), old[i].client_id)
                  THEN [old[i] EXCEPT !.client_id = new_client_id]
                  ELSE old[i]

C14_RenamesAtMostOne ==
    [][SetClientIdExecuted
          => /\ Len(Stored(file', libcPads)) = Len(Stored(file, libcPads))
             /\ Cardinality({i \in 1..Len(Stored(file, libcPads)) :
                                Stored(file', libcPads)[i]
                                    # Stored(file, libcPads)[i]}) <= 1
             /\ ~InSeq(cli.args.oldClientId,
                       ClientIds(Stored(file, libcPads)))
                  => /\ file' = file
                     /\ out' = <<Line("No configuration found with client ID"),
                                 Line("Nothing changed.")>>]_vars

\* delete has been executed to its end
DeleteExecuted ==
    /\ cli.pc = "prompted" /\ ~cli.abandon_cli
    /\ cli.args.subcmd = "delete"
    /\ cli'.pc = "executed"

\* the answers to n prompts of _confirm_delete, one after the other
RECURSIVE AnswersTo(_, _)
AnswersTo(n, lines) ==
    IF n = 0 THEN << >>
    ELSE <<QueryPrompt(lines, "no", 0).answer>>
             \o AnswersTo(n - 1, QueryPrompt(lines, "no", 0).rest)

\* the places of the records that a pattern selects, in their order
Matches(cds, id_pattern) ==
    SelectSeq([i \in 1..Len(cds) |-> i],
              LAMBDA i : MatchClientId(cds[i], id_pattern))

\* the places of the matching records whose deletion was confirmed
Confirmed(places, quiet, lines) ==
    {places[k] : k \in {j \in 1..Len(places) :
                           quiet \/ AnswersTo(Len(places), lines)[j] = "yes"}}

\* the records of cds at the places that are not in removed, in order
Keeping(cds, removed) ==
    LET kept == SelectSeq([i \in 1..Len(cds) |-> i],
                          LAMBDA i : i \notin removed)
    IN  [k \in 1..Len(kept) |-> cds[kept[k]]]

\* the records before and after a delete, the places of the records to
\* remove and what was printed: those records are gone, the others are
\* there as they were, the number is reported, and the file is as it was
\* when there was nothing to remove
ExactlyRemoved(old, new, removed, printed, f_old, f_new) ==
    /\ new = Keeping(old, removed)
    /\ Len(printed) > 0
    /\ printed[Len(printed)] = [text |-> "Deleted configurations.",
                                delete_count |-> Cardinality(removed)]
    /\ removed = {} => f_new = f_old

\* C15: delete removes from the store exactly the records whose client id
\* matches the pattern and whose deletion was confirmed (all matching
\* records with --quiet; none when the answer is 'no' or the default),
\* keeps every other record unchanged and in order, reports the number
\* removed, and does not rewrite the file when nothing is removed.
C15_DeleteRemovesConfirmed ==
    [][DeleteExecuted
          => ExactlyRemoved(
                 Stored(file, libcPads), Stored(file', libcPads),
                 Confirmed(Matches(Stored(file, libcPads),
                                   cli.args.clientIdPattern),
                           cli.args.quiet, inp'),
                 out', file, file')]_vars

\* the records before and after a run of generate and the codes it showed
\* for counts: no counter-based record is calculated more than once, and
\* none has its count raised by more than 1
CalculatedAtMostOnce(old, new, codes) ==
    /\ Len(new) = Len(old)
    /\ \A i \in 1..Len(old) :
         ~old[i].counter_from_time
            => /\ new[i].last_count <= old[i].last_count + 1
               /\ Cardinality({k \in 1..Len(codes) :
                                  codes[k].client_id = old[i].client_id}) <= 1

\* C16: within one generate invocation, each counter-based configuration is
\* calculated, and its counter incremented, at most once, whatever the
\* --refresh setting and whether or not time-based configurations are
\* matched by the same pattern.  (Stated for stores whose client ids are
\* unique, so that the codes shown for a client id are those of one record.)
C16_CounterBasedCalculatedOnce ==
    [][(GenerateExecuted /\ C3_ClientIdsAreUnique)
          => CalculatedAtMostOnce(Stored(file, libcPads),
                                  Stored(file', libcPads),
                                  CodesForCounts(out'))]_vars

\* the codes shown with their remaining seconds, in the lines printed
CodesForTimes(printed) ==
    SelectSeq(printed, LAMBDA l : l.text = "expires in")

\* C17: generate without --counter-based skips counter-based
\* configurations: it never increments a counter and never writes the
\* store file, and generating codes for time-based configurations never
\* modifies the store however many refresh passes run.
C17_TimeBasedLeavesStore ==
    [][GenerateExecuted
          => /\ ~cli.args.includeCounterBasedConfigs
                  => /\ file' = file
                     /\ CodesForCounts(out') = << >>
             /\ CounterBasedMatches(Stored(file, libcPads),
                                    cli.args.clientIdPattern) = << >>
                  => file' = file]_vars

\* generate without --counter-based has run two passes over a store with a
\* time-based and a counter-based configuration
C17_Witness ==
    /\ cli.pc = "executed" /\ cli.args.subcmd = "generate"
    /\ ~cli.args.includeCounterBasedConfigs
    /\ CounterBasedMatches(Stored(file, libcPads),
                           cli.args.clientIdPattern) # << >>
    /\ Len(CodesForTimes(out)) >= 2
    /\ \E k \in 1..Len(out) : out[k] = Line("")

\* ---------------------------------------------------------------------
\* _encrypt and _decrypt of a ClientFile object, called on their own with
\* byte strings of several lengths and endings
\* ---------------------------------------------------------------------

\* the byte strings are up to MaxBlocks blocks long, and a byte more
MaxBlocks == 2

\* lengths around the multiples of the block size
ByteLengths ==
    {k * BlockSize + d : k \in 0..MaxBlocks, d \in {0, 1, BlockSize - 1}}

\* values for the last bytes of a byte string: those that look like
\* padding, and some that do not
EndBytes == {0, 1, 2, 15, 16, 17, 255}

\* the byte strings: text, with each of the values for its last two bytes
ByteStrings ==
    {[i \in 1..n |-> IF i = n THEN B(e1)
                     ELSE IF i = n - 1 THEN B(e2) ELSE B(65)] :
        n \in ByteLengths, e1 \in EndBytes, e2 \in EndBytes}

CryptInit ==
    /\ file = NoFile
    /\ cf = NoClientFile
    /\ cli = IdleCli
    /\ out = << >>
    /\ procs = << >>
    /\ inp \in ByteStrings
    /\ result = NoResult
    /\ libcPads = FALSE

\* cypher_text = cf._encrypt(b)
EncryptCall ==
    /\ cf.made
    /\ result' = [op |-> "encrypt", exc |-> "none", key |-> cf.key,
                  cypher_text |-> Encrypt(cf.key, cf.iv, inp)]
    /\ UNCHANGED <<file, cf, cli, out, procs, inp, libcPads>>

\* cf._decrypt(cypher_text) and cf._decrypt(cypher_text, False); the
\* outcome keeps the key of the object that decrypted
DecryptCall ==
    /\ cf.made
    /\ result.op \in {"encrypt", "decrypt"}
    /\ \E strip_padding \in BOOLEAN, n \in JunkBytes :
        LET Called(r) ==
                result' = [op |-> "decrypt", exc |-> r.exc,
                           value |-> r.value, key |-> result.key,
                           cypher_text |-> result.cypher_text,
                           decrypted_with |-> cf.key,
                           strip_padding |-> strip_padding]
        IN  Called(Decrypt(cf.key, cf.iv, result.cypher_text,
                           strip_padding, n))
    /\ UNCHANGED <<file, cf, cli, out, procs, inp, libcPads>>

CryptNext == Construct \/ EncryptCall \/ DecryptCall

SpecCrypt == CryptInit /\ [][CryptNext]_vars

\* the byte string has been encrypted and decrypted by one object
Decrypted(strip_padding) ==
    /\ result.op = "decrypt"
    /\ result.decrypted_with = result.key
    /\ result.strip_padding = strip_padding

\* C18: for every byte string b, including the empty string and strings
\* whose last bytes look like padding (0x01 to 0x10),
\* _decrypt(_encrypt(b)) with strip_padding returns exactly b.
C18_DecryptInvertsEncrypt ==
    Decrypted(TRUE) => /\ result.exc = "none"
                       /\ result.value = inp

\* a whole number of blocks that ends in bytes that look like padding has
\* made the round trip
C18_Witness ==
    /\ Decrypted(TRUE)
    /\ Len(inp) > 0 /\ Len(inp) % BlockSize = 0
    /\ inp[Len(inp)] = B(2) /\ inp[Len(inp) - 1] = B(2)

\* the byte string with k bytes of value k after it
PaddedBy(b, k) == b \o Repeat(B(k), k)

\* C19: _encrypt always appends between 1 and 16 padding bytes, each equal
\* to the pad length, so the padded length is the smallest multiple of 16
\* strictly greater than the plaintext length; a plaintext whose length is
\* already a multiple of 16 gets a full block of sixteen 0x10 bytes.
C19_PaddingOfEncrypt ==
    /\ result.op \in {"encrypt", "decrypt"}
         => Len(result.cypher_text) * BlockSize
              = ((Len(inp) \div BlockSize) + 1) * BlockSize
    /\ Decrypted(FALSE)
         => /\ result.exc = "none"
            /\ \E k \in 1..16 : result.value = PaddedBy(inp, k)
            /\ Len(result.value) % 16 = 0
            /\ Len(result.value) > Len(inp)
            /\ Len(result.value) - 16 <= Len(inp)
            /\ Len(inp) % 16 = 0
                 => result.value = inp \o Repeat(B(16), 16)

\* a whole number of blocks has been encrypted, and decrypted with its
\* padding
C19_Witness ==
    /\ Decrypted(FALSE)
    /\ Len(inp) = BlockSize
    /\ Len(result.value) = 2 * BlockSize

\* ---------------------------------------------------------------------
\* HOTP.hash_from_hmac, called on its own
\* ---------------------------------------------------------------------

\* the digits of hex()
HexDigits ==
    <<"0", "1", "2", "3", "4", "5", "6", "7",
      "8", "9", "a", "b", "c", "d", "e", "f">>

\* hex(n) of a number that is not negative
RECURSIVE HexOf(_)
HexOf(n) ==
    IF n < 16 THEN <<"0", "x", HexDigits[n + 1]>>
    ELSE HexOf(n \div 16) \o <<HexDigits[(n % 16) + 1]>>

\* int(s, 16) of a string of digits of hex()
RECURSIVE IntBase16(_)
IntBase16(s) ==
    IF Len(s) = 0 THEN 0
    ELSE 16 * IntBase16(SubSeq(s, 1, Len(s) - 1))
           + (CHOOSE d \in 0..15 : HexDigits[d + 1] = s[Len(s)])

\* hash_from_hmac, were it to leave the top bit of the first byte as it is
HashFromHmacKeepingBit(hmac) ==
    IF ~IsBytes(hmac) THEN Raise("TypeError")
    ELSE IF 20 # Len(hmac.bytes) THEN Raise("ValueError")
    ELSE LET h == hmac.bytes
             hx == HexOf(h[Len(h)].b)
             offset == IntBase16(<<"0">> \o <<hx[Len(hx)]>>)
         IN  Return(PyTake(PyFrom(h, offset), 4))

\* HOTP.hash_from_hmac
HashFromHmac(hmac) ==
    IF ~IsBytes(hmac) THEN Raise("TypeError")
    ELSE IF 20 # Len(hmac.bytes) THEN Raise("ValueError")
    ELSE LET h == hmac.bytes
             hx == HexOf(h[Len(h)].b)
             offset == IntBase16(<<"0">> \o <<hx[Len(hx)]>>)
             chunk == PyTake(PyFrom(h, offset), 4)
         IN  Return(<<B(chunk[1].b % 128)>> \o PyFrom(chunk, 1))

\* the lengths of the byte strings given as HMAC
HmacLengths == {0, 1, 4, 19, 20, 21, 40}

\* the first bytes of the byte strings given as HMAC
HmacSeeds == {0, 128, 255}

\* the last bytes: every value of the low four bits, with high bits or not
HmacLastBytes == 0..15 \cup {n + 240 : n \in 0..15} \cup {127, 128}

\* the bytes: each 17 more than the one before it, and the last byte
HmacBytes ==
    {[i \in 1..n |-> IF i = n THEN B(last)
                     ELSE B((seed + 17 * (i - 1)) % 256)] :
        n \in HmacLengths, seed \in HmacSeeds, last \in HmacLastBytes}

\* the values given as HMAC: byte strings, and byte arrays, which are not
HmacSamples ==
    {[bytes |-> h] : h \in HmacBytes}
    \cup {[bytearray |-> h] : h \in {b \in HmacBytes : Len(b) = 20}}

HotpInit ==
    /\ file = NoFile
    /\ cf = NoClientFile
    /\ cli = IdleCli
    /\ out = << >>
    /\ procs = << >>
    /\ inp \in HmacSamples
    /\ result = NoResult
    /\ libcPads = FALSE

\* HOTP().hash_from_hmac(hmac)
HashFromHmacCall ==
    /\ result.op = "none"
    /\ result' = [op |-> "hash_from_hmac"] @@ HashFromHmac(inp)
    /\ UNCHANGED <<file, cf, cli, out, procs, inp, libcPads>>

\* the quotient, in bytes, and the remainder of the division by 10 of a
\* number given by its bytes, the most significant first, after a carry
RECURSIVE QuotientBy10(_, _)
QuotientBy10(bs, carry) ==
    IF bs = << >> THEN << >>
    ELSE <<(carry * 256 + Head(bs)) \div 10>>
             \o QuotientBy10(Tail(bs), (carry * 256 + Head(bs)) % 10)

RECURSIVE RemainderBy10(_, _)
RemainderBy10(bs, carry) ==
    IF bs = << >> THEN carry
    ELSE RemainderBy10(Tail(bs), (carry * 256 + Head(bs)) % 10)

\* the decimal digits of int.from_bytes(bs, 'big', signed=False), none for 0
RECURSIVE DecimalDigits(_)
DecimalDigits(bs) ==
    IF \A i \in 1..Len(bs) : bs[i] = 0 THEN << >>
    ELSE DecimalDigits(QuotientBy10(bs, 0)) \o <<RemainderBy10(bs, 0)>>

\* digits without the zeros they start with
RECURSIVE StripZeros(_)
StripZeros(ds) ==
    IF ds # << >> /\ Head(ds) = 0 THEN StripZeros(Tail(ds)) ELSE ds

\* str(n) of the number with the given digits
StrOfDigits(ds) == IF StripZeros(ds) = << >> THEN <<0>> ELSE StripZeros(ds)

\* the digits of n % (10**code_length), n given by its digits
ModPowerOf10(ds, code_length) ==
    StripZeros(SubSeq(ds, Max(Len(ds) - code_length, 0) + 1, Len(ds)))

\* code_from_hash, were it to return str(code) as it is
CodeFromHashUnpadded(hash, code_length) ==
    IF 1 > code_length \/ 10 < code_length THEN Raise("ValueError")
    ELSE IF ~IsBytes(hash) THEN Raise("TypeError")
    ELSE IF 4 # Len(hash.bytes) THEN Raise("ValueError")
    ELSE LET int_hash ==
                 DecimalDigits([i \in 1..Len(hash.bytes) |-> hash.bytes[i].b])
         IN  Return(StrOfDigits(ModPowerOf10(int_hash, code_length)))

\* HOTP.code_from_hash; the code string is a sequence of digits
CodeFromHash(hash, code_length) ==
    IF 1 > code_length \/ 10 < code_length THEN Raise("ValueError")
    ELSE IF ~IsBytes(hash) THEN Raise("TypeError")
    ELSE IF 4 # Len(hash.bytes) THEN Raise("ValueError")
    ELSE LET int_hash ==
                 DecimalDigits([i \in 1..Len(hash.bytes) |-> hash.bytes[i].b])
             code_string == StrOfDigits(ModPowerOf10(int_hash, code_length))
         IN  Return(Repeat(0, code_length - Len(code_string)) \o code_string)

\* the code lengths given: those of the range [1,10], and 0 and 11
CodeLengths == 0..11

\* the hashes given to code_from_hash: the value given as HMAC, and the
\* truncated hash that hash_from_hmac has returned for it
HashesAt(given, outcome) ==
    {given} \cup (IF outcome.op = "hash_from_hmac" /\ outcome.exc = "none"
                  THEN {Bytes(outcome.value)} ELSE {})

\* HOTP().code_from_hash(hash, code_length)
CodeFromHashCall ==
    /\ result.op \in {"none", "hash_from_hmac"}
    /\ \E hash \in HashesAt(inp, result), code_length \in CodeLengths :
        result' = [op |-> "code_from_hash", hash |-> hash,
                   code_length |-> code_length]
                      @@ CodeFromHash(hash, code_length)
    /\ UNCHANGED <<file, cf, cli, out, procs, inp, libcPads>>

\* HOTP.counter_from_time at the time seconds_now; the counter is kept as
\* the number of the interval
CounterFromTime(seconds_now, period) ==
    IF 0 >= period THEN Raise("ValueError")
    ELSE LET intervals == seconds_now \div period
             remaining_seconds == seconds_now - (intervals * period)
         IN  Return([counter |-> intervals,
                     remaining_seconds |-> remaining_seconds])

\* the times of the clock, in seconds since the epoch
ClockSamples == {0, 1, 15, 29, 30, 31, 59, 60, UnixNow}

\* the periods given
PeriodSamples == {-1, 0, 1, 7, 30, 60}

\* HOTP().counter_from_time(period) at one of the times of the clock
CounterFromTimeCall ==
    /\ result.op = "none"
    /\ \E seconds_now \in ClockSamples, period \in PeriodSamples :
        /\ inp' = <<period>>
        /\ result' = [op |-> "counter_from_time",
                      seconds_now |-> seconds_now, period |-> period]
                         @@ CounterFromTime(seconds_now, period)
    /\ UNCHANGED <<file, cf, cli, out, procs, libcPads>>

\* the strings given as Base32 text: the first characters of a text of
\* seventeen, of every length up to nine and of lengths around sixteen, and
\* texts with a character that is not of the alphabet
Base32Samples ==
    LET text == <<"A", "B", "C", "D", "E", "F", "G", "H", "A",
                  "B", "C", "D", "E", "F", "G", "H", "A">>
    IN  {SubSeq(text, 1, n) : n \in 0..9 \cup {13, 15, 16, 17}}
        \cup {<<"A", "B", "C", "D", "E", "F", "G", "1">>,
              <<"a", "b", "c", "d", "e">>}

\* HOTP().convert_base32_secret_key(base32_secret_key)
ConvertBase32SecretKeyCall ==
    /\ result.op = "none"
    /\ \E base32_secret_key \in Base32Samples :
        /\ inp' = <<base32_secret_key>>
        /\ result' = [op |-> "convert_base32_secret_key",
                      base32_secret_key |-> base32_secret_key]
                         @@ ConvertBase32SecretKey(base32_secret_key)
    /\ UNCHANGED <<file, cf, cli, out, procs, libcPads>>

\* the characters of Base32, in the order of their values
Base32Chars ==
    <<"A", "B", "C", "D", "E", "F", "G", "H", "I", "J", "K", "L", "M",
      "N", "O", "P", "Q", "R", "S", "T", "U", "V", "W", "X", "Y", "Z",
      "2", "3", "4", "5", "6", "7">>

\* the bytes that base64.b32decode gives for a text it accepts: five bits
\* for each character, eight for each byte, the bits left over dropped
B32DecodeBytes(text) ==
    LET value(c) == CHOOSE v \in 0..31 : Base32Chars[v + 1] = c
        bit(j) == (value(text[((j - 1) \div 5) + 1])
                       \div (2 ^ (4 - ((j - 1) % 5)))) % 2
        byte(k) == bit(8 * k - 7) * 128 + bit(8 * k - 6) * 64
                     + bit(8 * k - 5) * 32 + bit(8 * k - 4) * 16
                     + bit(8 * k - 3) * 8 + bit(8 * k - 2) * 4
                     + bit(8 * k - 1) * 2 + bit(8 * k)
    IN  [k \in 1..((Len(text) * 5) \div 8) |-> B(byte(k))]

\* bytes.fromhex of a string of hex digits of even length
FromHex(s_hex) ==
    [k \in 1..(Len(s_hex) \div 2) |->
        B(IntBase16(SubSeq(s_hex, 2 * k - 1, 2 * k)))]

\* num_to_counter, were it to leave the hex digits as they are
NumToCounterUnpadded(num) ==
    IF 0 > num THEN Raise("ValueError")
    ELSE Return(FromHex(PyFrom(HexOf(num), 2)))

\* HOTP.num_to_counter, for the integers of the model, which are all less
\* than 2**64
NumToCounter(num) ==
    IF 0 > num THEN Raise("ValueError")
    ELSE LET s_hex == PyFrom(HexOf(num), 2)
             l_hex == Len(s_hex)
         IN  Return(FromHex(Repeat("0", 16 - l_hex) \o s_hex))

\* the secret of the test values of RFC 4226, Appendix D, as its bytes and
\* as its Base32 text
Rfc4226Secret ==
    [i \in 1..20 |-> B(48 + (i % 10))]

Rfc4226SecretBase32 ==
    <<"G", "E", "Z", "D", "G", "N", "B", "V", "G", "Y", "3", "T",
      "Q", "O", "J", "Q", "G", "E", "Z", "D", "G", "N", "B", "V",
      "G", "Y", "3", "T", "Q", "O", "J", "Q">>

\* a count of the test values in its form of 8 bytes
CounterBytes(n) == [k \in 1..8 |-> B(IF k = 8 THEN n ELSE 0)]

\* the HMAC-SHA-1 digests of the counts 0 to 9 under that secret
Rfc4226Digests ==
    <<
       <<204, 147, 207, 24, 80, 141, 148, 147, 76, 100, 182, 93, 139,
         167, 102, 127, 183, 205, 228, 176>>,
       <<117, 164, 138, 25, 212, 203, 225, 0, 100, 78, 138, 193, 57,
         126, 234, 116, 122, 45, 51, 171>>,
       <<11, 172, 183, 250, 8, 47, 239, 48, 120, 34, 17, 147, 139,
         193, 197, 231, 4, 22, 255, 68>>,
       <<102, 194, 130, 39, 208, 58, 45, 85, 41, 38, 47, 240, 22,
         161, 230, 239, 118, 85, 126, 206>>,
       <<169, 4, 201, 0, 166, 75, 53, 144, 152, 116, 179, 62, 97,
         197, 147, 138, 142, 21, 237, 28>>,
       <<163, 126, 120, 61, 123, 114, 51, 192, 131, 212, 246, 41, 38,
         199, 162, 95, 35, 141, 3, 22>>,
       <<188, 156, 210, 133, 97, 4, 44, 131, 242, 25, 50, 77, 60, 96,
         114, 86, 192, 50, 114, 174>>,
       <<164, 251, 150, 12, 11, 192, 110, 30, 171, 184, 4, 229, 179,
         151, 205, 196, 180, 85, 150, 250>>,
       <<27, 60, 137, 246, 94, 108, 158, 136, 48, 18, 5, 40, 35, 68,
         63, 4, 139, 67, 50, 219>>,
       <<22, 55, 64, 152, 9, 166, 121, 220, 105, 130, 7, 49, 12, 140,
         127, 192, 114, 144, 217, 229>>
    >>

\* the codes of six digits for the counts 0 to 9
Rfc4226Codes ==
    <<
       <<7, 5, 5, 2, 2, 4>>,
       <<2, 8, 7, 0, 8, 2>>,
       <<3, 5, 9, 1, 5, 2>>,
       <<9, 6, 9, 4, 2, 9>>,
       <<3, 3, 8, 3, 1, 4>>,
       <<2, 5, 4, 6, 7, 6>>,
       <<2, 8, 7, 9, 2, 2>>,
       <<1, 6, 2, 5, 8, 3>>,
       <<3, 9, 9, 8, 7, 1>>,
       <<5, 2, 0, 4, 8, 9>>
    >>

\* hmac.new(secret_key, counter, sha1).digest(): the digest of the test
\* values where the model knows it, twenty unknown bytes otherwise
HmacSha1Digest(secret_key, counter) ==
    IF /\ secret_key = Rfc4226Secret
       /\ \E i \in 0..9 : counter = CounterBytes(i)
    THEN LET i == CHOOSE i \in 0..9 : counter = CounterBytes(i)
         IN  [k \in 1..20 |-> B(Rfc4226Digests[i + 1][k])]
    ELSE Repeat(JunkByte, 20)

\* HOTP.generate_hmac for a secret key and a counter that are byte strings
GenerateHmac(secret_key, counter) ==
    IF 8 # Len(counter) THEN Raise("ValueError")
    ELSE Return(HmacSha1Digest(secret_key, counter))

\* HOTP.generate_code_from_counter with the bytes of the secret, of the
\* HMAC and of the truncated hash, and the digits of the code; the counter
\* is an integer, [int |-> n], or a byte string
GenerateCodeString(secret_key, counter, code_length) ==
    LET Coded(truncated_hash) ==
            IF truncated_hash.exc # "none" THEN Raise(truncated_hash.exc)
            ELSE CodeFromHash(Bytes(truncated_hash.value), code_length)
        Hashed(hmac) ==
            IF hmac.exc # "none" THEN Raise(hmac.exc)
            ELSE Coded(HashFromHmac(Bytes(hmac.value)))
        Keyed(k, message) ==
            IF k.exc # "none" THEN Raise(k.exc)
            ELSE Hashed(GenerateHmac(k.value, message))
        Counted(c) ==
            IF c.exc # "none" THEN Raise(c.exc)
            ELSE IF 8 # Len(c.value) THEN Raise("ValueError")
            ELSE IF 1 > code_length \/ 10 < code_length
            THEN Raise("ValueError")
            ELSE Keyed(IF IsBytes(secret_key) THEN Return(secret_key.bytes)
                       ELSE IF ConvertBase32SecretKey(secret_key.str).exc
                                   # "none"
                       THEN Raise("ValueError")
                       ELSE Return(B32DecodeBytes(secret_key.str)),
                       c.value)
    IN  Counted(IF IsBytes(counter) THEN Return(counter.bytes)
                ELSE NumToCounter(counter.int))

\* the counters given: the counts of the test values and one below them
\* as integers, and the counts as their 8 bytes and as their last 7 bytes
CounterSamples ==
    {[int |-> n] : n \in -1..9}
    \cup {Bytes(CounterBytes(n)) : n \in 0..9}
    \cup {Bytes(Tail(CounterBytes(n))) : n \in 0..9}

\* HOTP().generate_code_from_counter(secret_key, counter, code_length)
GenerateCodeFromCounterCall ==
    /\ result.op = "none"
    /\ \E secret_key \in {Bytes(Rfc4226Secret), Str(Rfc4226SecretBase32)},
          counter \in CounterSamples, code_length \in {6, 8} :
        /\ inp' = <<secret_key, counter, code_length>>
        /\ result' = [op |-> "generate_code_from_counter",
                      secret_key |-> secret_key, counter |-> counter,
                      code_length |-> code_length]
                         @@ GenerateCodeString(secret_key, counter,
                                               code_length)
    /\ UNCHANGED <<file, cf, cli, out, procs, libcPads>>

HotpNext ==
    \/ GenerateCodeFromCounterCall
    \/ HashFromHmacCall
    \/ CodeFromHashCall
    \/ CounterFromTimeCall
    \/ ConvertBase32SecretKeyCall

SpecHotp == HotpInit /\ [][HotpNext]_vars

\* the four bytes of h from offset o on, the first without its top bit
Truncated(h, o) ==
    <<B(h[o + 1].b % 128), h[o + 2], h[o + 3], h[o + 4]>>

\* C20: for every 20-byte HMAC h, hash_from_hmac returns exactly 4 bytes,
\* namely h[o], h[o+1], h[o+2], h[o+3] with o = h[19] & 0x0F and the top
\* bit of the first byte cleared, so the result read as a big-endian
\* integer is below 2^31; an input of any other length is rejected with
\* ValueError.
C20_HashFromHmacTruncates ==
    (result.op = "hash_from_hmac" /\ IsBytes(inp))
        => IF Len(inp.bytes) = 20
           THEN /\ result.exc = "none"
                /\ Len(result.value) = 4
                /\ result.value = Truncated(inp.bytes, inp.bytes[20].b % 16)
                /\ Unpack32(result.value) >= 0
                /\ Unpack32(result.value) <= 2147483647
           ELSE result.exc = "ValueError"

\* a 20-byte HMAC whose last byte has high bits and selects the last
\* offset, where the byte has its top bit set
C20_Witness ==
    /\ result.op = "hash_from_hmac" /\ result.exc = "none"
    /\ IsBytes(inp)
    /\ inp.bytes[20].b = 255
    /\ inp.bytes[16].b >= 128
    /\ result.value[1].b = inp.bytes[16].b - 128

\* a 4-byte hash has been given to code_from_hash
CodeFromHashCalled ==
    /\ result.op = "code_from_hash"
    /\ IsBytes(result.hash) /\ Len(result.hash.bytes) = 4

\* the value of four bytes modulo m, for m up to 10000, computed from the
\* two halves
ModOfHalves(bs, m) ==
    (((bs[1].b * 256 + bs[2].b) % m) * (65536 % m)
        + bs[3].b * 256 + bs[4].b) % m

\* C21: for every 4-byte truncated hash and every code length d in [1,10],
\* code_from_hash returns a string of exactly d decimal digits equal to the
\* unsigned big-endian value modulo 10^d, left-padded with zeros; a code
\* length of 0 or 11 raises ValueError.
C21_CodeHasGivenLength ==
    CodeFromHashCalled
        => IF result.code_length \in 1..10
           THEN /\ result.exc = "none"
                /\ Len(result.value) = result.code_length
                /\ \A i \in 1..Len(result.value) : result.value[i] \in 0..9
                /\ result.hash.bytes[1].b < 128
                     => DigitsValue(result.value)
                          = IF result.code_length = 10
                            THEN Unpack32(result.hash.bytes)
                            ELSE Unpack32(result.hash.bytes)
                                     % (10 ^ result.code_length)
                /\ result.code_length <= 4
                     => DigitsValue(result.value)
                          = ModOfHalves(result.hash.bytes,
                                        10 ^ result.code_length)
           ELSE result.exc = "ValueError"

\* a truncated hash has given a code of ten digits that starts with a zero
C21_Witness ==
    /\ CodeFromHashCalled
    /\ result.exc = "none"
    /\ result.code_length = 10
    /\ result.hash.bytes[1].b < 128
    /\ result.value[1] = 0
    /\ result.value[10] # 0

\* C22: the seconds_remaining value that counter_from_time returns,
\* computed as unix_seconds(now) - interval*period_seconds with interval =
\* floor(unix_seconds(now) / period_seconds), equals period_seconds -
\* (unix_seconds(now) mod period_seconds) for every now >= 0 and every
\* period_seconds > 0.
C22_RemainingIsPeriodLessRemainder ==
    (result.op = "counter_from_time" /\ result.period > 0)
        => /\ result.exc = "none"
           /\ result.value.remaining_seconds
                = result.period - (result.seconds_now % result.period)

\* C23: convert_base32_secret_key raises ValueError for every input string
\* whose length is not a multiple of 8 characters (for example the
\* 5-character 'ABCDE' and the 9-character 'ABCDEFGHA').
C23_OddLengthsRaiseValueError ==
    (/\ result.op = "convert_base32_secret_key"
     /\ Len(result.base32_secret_key) % 8 # 0)
        => result.exc = "ValueError"

\* the count that a counter of 8 bytes, or an integer, stands for
CountOf(counter) ==
    IF IsBytes(counter) THEN counter.bytes[8].b ELSE counter.int

\* generate_code_from_counter has been called for one of the counts 0 to 9
\* and six digits
TestValueAsked ==
    /\ result.op = "generate_code_from_counter"
    /\ result.code_length = 6
    /\ IsBytes(result.counter) => Len(result.counter.bytes) = 8
    /\ CountOf(result.counter) \in 0..9

\* C24: generate_code_from_counter with the secret b'12345678901234567890'
\* and 6 digits returns 755224, 287082, 359152, 969429, 338314, 254676,
\* 287922, 162583, 399871, 520489 for counters 0 to 9, whether the counter
\* is given as an integer or as 8 big-endian bytes and whether the secret
\* is given as bytes or as its Base32 text.
C24_Rfc4226TestValues ==
    TestValueAsked
        => /\ result.exc = "none"
           /\ result.value = Rfc4226Codes[CountOf(result.counter) + 1]

\* the code for count 9 has been generated from the Base32 text and the
\* integer
C24_Witness ==
    /\ TestValueAsked
    /\ ~IsBytes(result.secret_key) /\ ~IsBytes(result.counter)
    /\ result.counter.int = 9
    /\ result.exc = "none"
    /\ result.value = <<5, 2, 0, 4, 8, 9>>

\* a command has been executed to its end, or to the exception that ends it
CommandExecuted ==
    /\ cli.pc = "prompted" /\ ~cli.abandon_cli
    /\ cli'.pc = "executed"

\* a record with its count incremented n times
RECURSIVE IncrementedTimes(_, _, _)
IncrementedTimes(cd, n, pads) ==
    IF n = 0 THEN cd
    ELSE IncrementedTimes(IncrementedCount(cd, Now, pads), n - 1, pads)

\* the list after add: as it was, when the client id is in it or the add
\* fails, or with one record of that client id after its end
Added(old, new, client_id) ==
    \/ new = old
    \/ /\ ~InSeq(client_id, ClientIds(old))
       /\ Len(new) = Len(old) + 1
       /\ SubSeq(new, 1, Len(old)) = old
       /\ new[Len(new)].client_id = client_id

\* the list after set clientid: the record with the old client id has the
\* new one
Renamed(old, old_client_id, new_client_id) ==
    [i \in 1..Len(old) |->
        IF old[i].client_id = old_client_id
        THEN [old[i] EXCEPT !.client_id = new_client_id]
        ELSE old[i]]

\* the list after generate: the record at each of the places has its count
\* incremented once for each code shown for it, the codes being shown for
\* the places in turn
Counted(old, places, codes, pads) ==
    [i \in 1..Len(old) |->
        IncrementedTimes(
            old[i],
            Cardinality({k \in 1..Len(codes) :
                            places[((k - 1) % Len(places)) + 1] = i}),
            pads)]

\* the list of records after a command, given the list before it, is the
\* list that the command makes of the list in memory
AppliedToList(old, new, args, lines, printed, pads) ==
    IF args.subcmd = "add" THEN Added(old, new, args.clientIdToAdd)
    ELSE IF args.subcmd = "delete"
    THEN new = Keeping(old, Confirmed(Matches(old, args.clientIdPattern),
                                      args.quiet, lines))
    ELSE IF args.subcmd = "set" /\ args.subsubcmd = "clientid"
    THEN \/ new = old
         \/ new = Renamed(old, args.oldClientId, args.newClientId)
    ELSE IF args.subcmd = "generate" /\ args.includeCounterBasedConfigs
    THEN new = Counted(old, CounterBasedMatches(old, args.clientIdPattern),
                       CodesForCounts(printed), pads)
    ELSE new = old

\* C25: for any sequence of non-overlapping CLI operations (add, delete,
\* set clientid, counter-based generate, set passphrase) run under the
\* correct passphrase, the records loaded from the store file afterwards
\* equal the result of applying the same operations in the same order to
\* an abstract in-memory list of records, with add appending at the end.
C25_StoreFollowsList ==
    [][CommandExecuted
          => AppliedToList(Stored(file, libcPads), Stored(file', libcPads),
                           cli.args, inp', out', libcPads)]_vars

\* a later phase of a run that has been abandoned is called
PhaseAfterAbandon ==
    /\ cli.pc \in {"parsed", "created", "prompted"}
    /\ cli.abandon_cli
    /\ cli'.pc # cli.pc

\* C26: once the CLI has abandoned (an empty passphrase or shared secret
\* was entered, creation of the data file was declined, or no data file
\* exists for a subcommand other than add), the abandon flag is never
\* cleared and every later phase (create_data_file, prompt_for_secrets,
\* execute) returns without prompting and without creating or modifying
\* the data file.
C26_AbandonedStaysAbandoned ==
    [][PhaseAfterAbandon
          => /\ cli'.pc \in {"created", "prompted", "executed"}
             /\ cli'.abandon_cli
             /\ out' = << >>
             /\ file' = file]_vars

\* an add was abandoned at the prompt for the shared secret, with the
\* passphrase accepted, and execute has returned
C26_Witness ==
    /\ cli.pc = "executed" /\ cli.abandon_cli
    /\ cli.args.subcmd = "add"
    /\ cli.cf.made /\ ~cli.shared_secret.given
    /\ out = << >>

\* create_data_file has been called and has returned or raised
DataFilePhase ==
    /\ cli.pc = "parsed"
    /\ cli'.pc \in {"created", "crashed"}

\* the lines typed accept the offer, after answers that are neither yes nor
\* no, and then enter pairs of passphrases that are not empty, the last
\* pair the only one whose entries are equal, and equal to pp
AcceptedAndConfirmed(lines, pp) ==
    \E i \in 1..Len(lines) :
        /\ lines[i] \in {"yes", ""}
        /\ \A j \in 1..(i - 1) : lines[j] \notin {"yes", "no", ""}
        /\ (Len(lines) - i) % 2 = 0
        /\ Len(lines) - i >= 2
        /\ \A j \in (i + 1)..Len(lines) : lines[j] # ""
        /\ lines[Len(lines)] = pp /\ lines[Len(lines) - 1] = pp
        /\ \A k \in 1..(((Len(lines) - i) \div 2) - 1) :
               lines[i + 2 * k - 1] # lines[i + 2 * k]

\* the file is an empty store under the passphrase pp and no other
EmptyStoreUnder(f, pp, pads) ==
    /\ f.exists
    /\ Load(NewClientFile(pp), f, 0, pads) = Return(<< >>)
    /\ \A other \in Passphrases, n \in JunkBytes :
           Validate(NewClientFile(other), f, n) = Return(other = pp)

\* C27: create_data_file creates a new, empty store file only when the
\* subcommand is add, no data file exists, the user accepts the offer
\* (answers yes or takes the default) and two successive non-empty
\* passphrase entries are equal (a mismatch is followed by a re-prompt);
\* the file is then encrypted under exactly that passphrase.
C27_CreatesOnlyWhenConfirmed ==
    [][DataFilePhase
          => /\ file' # file
                  => /\ cli.args.subcmd = "add"
                     /\ ~file.exists
                     /\ cli'.passphrase.given
                     /\ AcceptedAndConfirmed(inp', cli'.passphrase.pp)
                     /\ EmptyStoreUnder(file', cli'.passphrase.pp, libcPads)
                     /\ cli'.cf = NewClientFile(cli'.passphrase.pp)
             /\ \A k \in 1..Len(out') :
                    out'[k] = Line("Passphrases do not match. Try again.")
                        => /\ k < Len(out')
                           /\ out'[k + 1] = Line("Enter passphrase: ")]_vars

\* the data file has been created with the default answer to the offer
\* and a passphrase confirmed at the second attempt
C27_Witness ==
    /\ cli.pc = "created" /\ ~cli.abandon_cli
    /\ cli.args.subcmd = "add"
    /\ inp = <<"", "p1", "p2", "p2", "p2">>
    /\ EmptyStoreUnder(file, "p2", libcPads)

\* the ClientFile object of the CLI is one whose passphrase validates
\* against the file, and it is the passphrase the CLI holds
HoldsValidated(c, f) ==
    /\ c.passphrase.given
    /\ c.cf = NewClientFile(c.passphrase.pp)
    /\ \A n \in JunkBytes : Validate(c.cf, f, n) = Return(TRUE)

\* prompt_for_secrets has been called and has returned
SecretsPhase ==
    /\ cli.pc = "created"
    /\ cli'.pc = "prompted"

\* execute has been called
ExecutePhase ==
    /\ cli.pc = "prompted"
    /\ cli'.pc \in {"executed", "crashed"}

\* C28: execute reads or writes the data file only through a ClientFile
\* whose passphrase either passed validate() against the existing file or
\* was the one used to create the file; a passphrase for which validate()
\* returns False is never stored and leads to a re-prompt until a
\* passphrase validates or an empty line abandons the command.
C28_OnlyValidatedPassphrase ==
    [][/\ ExecutePhase
          => \/ HoldsValidated(cli, file)
             \/ /\ file' = file
                /\ out' \in {<< >>, <<Line("authenticator version")>>}
       /\ SecretsPhase
          => /\ (cli'.passphrase.given \/ cli'.cf.made)
                 => HoldsValidated(cli', file)
             /\ (cli.args.subcmd # "info" /\ ~cli.abandon_cli)
                 => (cli'.passphrase.given \/ cli'.abandon_cli)
             /\ \A k \in 1..Len(out') :
                    out'[k] = Line("Passphrase is incorrect. Try again.")
                        => /\ k < Len(out')
                           /\ out'[k + 1] = Line("Enter passphrase: ")]_vars

\* a passphrase that does not validate was entered, and then one that does
C28_Witness ==
    /\ cli.pc = "prompted" /\ ~cli.abandon_cli
    /\ HoldsValidated(cli, file)
    /\ Len(out) >= 3
    /\ out[2] = Line("Passphrase is incorrect. Try again.")
    /\ Stored(file, libcPads) # << >>

\* the codes shown for counts and the records in the file after the run:
\* the record a code was shown for has that count, or a later one
CountsShownArePersisted(codes, new) ==
    \A k \in 1..Len(codes), i \in 1..Len(new) :
        new[i].client_id = codes[k].client_id
            => /\ ~new[i].counter_from_time
               /\ new[i].last_count >= codes[k].count

\* the last code shown for a record is for the count that is persisted
LastCountShownIsPersisted(codes, new) ==
    \A k \in 1..Len(codes), i \in 1..Len(new) :
        (/\ new[i].client_id = codes[k].client_id
         /\ \A l \in (k + 1)..Len(codes) :
                codes[l].client_id # codes[k].client_id)
            => new[i].last_count = codes[k].count

\* C29: for a counter-based configuration, a generated code is printed
\* only after the incremented counter has been saved to the store file,
\* and the count printed with it equals the persisted last_count, so a
\* counter value whose code was displayed is never used again by a later
\* generate.
C29_ShownCountIsSaved ==
    [][GenerateExecuted
          => /\ CountsShownArePersisted(CodesForCounts(out'),
                                        Stored(file', libcPads))
             /\ LastCountShownIsPersisted(CodesForCounts(out'),
                                          Stored(file', libcPads))]_vars


-----------------------------------------------------------------------------
(* ClientFile.validate and ClientFile.load on the same file contents: files *)
(* that save() wrote, whole or cut off after a whole number of blocks, and  *)
(* files whose cleartext header was altered                                 *)

\* the contents of a file cut off after k of its 16-byte blocks, k >= 2
Truncations(blocks) == {SubSeq(blocks, 1, k) : k \in 2..Len(blocks)}

\* the contents of a file whose first 16 bytes were replaced by header
WithHeader(blocks, header) == <<[raw |-> header]>> \o Tail(blocks)

\* a cleartext header with another file version
OtherHeader == BuildHeader(MagicNumber, FileVersion + 1, KeyStretches)

ContentSamples ==
    UNION {Truncations(EncryptedFile(pp, payload).blocks)
              \cup {WithHeader(EncryptedFile(pp, payload).blocks, OtherHeader)} :
           pp \in Passphrases, payload \in PayloadSamples}

ContentsInit ==
    /\ file \in {[exists |-> TRUE, blocks |-> blocks] :
                    blocks \in ContentSamples}
    /\ cf \in {NewClientFile(pp) : pp \in Passphrases}
    /\ cli = IdleCli
    /\ out = << >>
    /\ procs = << >>
    /\ inp = << >>
    /\ result = NoResult
    /\ libcPads \in BOOLEAN

ContentsNext == LoadCall \/ ValidateCall

SpecContents == ContentsInit /\ [][ContentsNext]_vars

\* the exceptions load() raises before its header validation has passed
HeaderFailures ==
    {"DecryptionError", "FileCorruptionError", "struct.error", "IndexError"}

\* C30: for a file of at least 32 bytes and any key, validate() returns True
\* exactly when load() of the same file under the same key passes header
\* validation: a validate() followed by a load() agree
C30_ValidateAgreesWithLoad ==
    [][(/\ result.op = "validate"
        /\ result'.op = "load"
        /\ Len(file.blocks) >= 2)
       => ((result.exc = "none" /\ result.valid)
              <=> result'.exc \notin HeaderFailures)]_vars
====
